---- MODULE Spec2Model ----
(***************************************************************************)
(* A model of the manul session engine: one party's Session and            *)
(* RoundAccumulator driven through the rounds of the example               *)
(* SimpleProtocol (round 1 with echo broadcast, its echo sub-round,        *)
(* round 2), with the peers under the control of the environment.          *)
(***************************************************************************)
EXTENDS Integers, Sequences, FiniteSets, Bags, TLC

\* ------------------------------------------------------------------------
\* Bounds of the model
\* ------------------------------------------------------------------------

\* Number of faulty deliveries (a message that is malformed, has a content a
\* lawful party does not send, or is rejected as a duplicate or as out of
\* context) the peers may make in one execution.
MaxFaults == 1

\* ------------------------------------------------------------------------
\* Parties, session ids, round ids
\* ------------------------------------------------------------------------

\* The three parties of the example tests (signers 0..2), ordered ids.
Ids == {0, 1, 2}

\* The party whose Session is modelled.
Me == 1

\* The peers of a party (`other_ids` of the example's inputs).
other_ids(id) == Ids \ {id}

\* ids_to_positions of the example protocol: the index of the id in the
\* ordered set of all ids.
ids_to_positions(id) == Cardinality({j \in Ids : j < id})

\* The session id of the modelled session and a foreign one.
OurSessionId == 1
ForeignSessionId == OurSessionId + 1
SessionIds == {OurSessionId, ForeignSessionId}

RoundId(n) == [round_num |-> n, is_echo |-> FALSE]

echo(rid) == [round_num |-> rid.round_num, is_echo |-> TRUE]

non_echo(rid) == [round_num |-> rid.round_num, is_echo |-> FALSE]

\* Round ids a message may claim: rounds 1 and 2, the echo sub-round of 1,
\* and round 3 which no round of the protocol declares.
RoundIds == {RoundId(1), echo(RoundId(1)), RoundId(2), RoundId(3)}

\* Partial maps (BTreeMap) are functions; insert replaces an existing key.
EmptyMap == <<>>

Insert(map, k, v) == [x \in (DOMAIN map) \cup {k} |-> IF x = k THEN v ELSE map[x]]

\* ------------------------------------------------------------------------
\* Message parts, signatures, message bundles
\* ------------------------------------------------------------------------

\* A message part is absent ("none"), or holds serialized bytes; the payload
\* of an echo sub-round message (the echo pack) holds a map
\* sender -> signed echo broadcast.
NonePart == [tag |-> "none", bytes |-> <<>>, pack |-> EmptyMap]

BytesPart(b) == [tag |-> "some", bytes |-> b, pack |-> EmptyMap]

PackPart(p) == [tag |-> "pack", bytes |-> <<>>, pack |-> p]

is_none(part) == part.tag = "none"

\* The randomness a call draws from the random number generator: the calls
\* of new_for_next_round draw round_rng, the call of make_message for a
\* destination draws message_rng(destination), and two calls never draw
\* the same.
round_rng == 0

message_rng(destination) == destination + 1

\* SignedMessagePart::new: the part bound to (session id, round id) by a
\* signature of `signer`.  sig is "valid" for a signature made by `signer`
\* over exactly this metadata and payload; the bytes of the signature
\* depend on the randomness `rng` drawn for it.
SignedMessagePart(rng, signer, sid, rid, part) ==
    [session_id |-> sid, round_id |-> rid, payload |-> part,
     signer |-> signer, sig |-> "valid", rng |-> rng]

\* A part whose signature bytes are not a signature / do not match.
BadlySigned(signer, sid, rid, part, sig) ==
    [session_id |-> sid, round_id |-> rid, payload |-> part,
     signer |-> signer, sig |-> sig, rng |-> round_rng]

metadata(sp) == [session_id |-> sp.session_id, round_id |-> sp.round_id]

\* SignedMessagePart::verify(verifier)
verify_part(sp, verifier) ==
    IF sp.sig = "undeserializable" THEN "InvalidSignature"
    ELSE IF sp.sig /= "valid" \/ sp.signer /= verifier THEN "SignatureMismatch"
    ELSE "Ok"

\* Message::new: the three parts of one round signed with the same
\* metadata, as the message a party makes for the party Me.
Message(signer, sid, rid, dm, eb, nb) ==
    [direct_message |-> SignedMessagePart(message_rng(Me), signer, sid, rid, dm),
     echo_broadcast |-> SignedMessagePart(round_rng, signer, sid, rid, eb),
     normal_broadcast |-> SignedMessagePart(round_rng, signer, sid, rid, nb)]

\* Message::unify_metadata: TRUE when the three parts carry the same metadata.
unify_metadata(m) ==
    /\ metadata(m.echo_broadcast) = metadata(m.direct_message)
    /\ metadata(m.normal_broadcast) = metadata(m.direct_message)

\* CheckedMessage::verify(from): the signature of every part is checked.
verify_message(m, from) ==
    LET d == verify_part(m.direct_message, from)
        e == verify_part(m.echo_broadcast, from)
        n == verify_part(m.normal_broadcast, from)
    IN  IF d /= "Ok" THEN d ELSE IF e /= "Ok" THEN e ELSE n

\* ------------------------------------------------------------------------
\* The example protocol (SimpleProtocol) and the echo sub-round
\* ------------------------------------------------------------------------

\* Serialized message types of the example: bytes of the struct fields.
Round1Message(my_position, your_position) == BytesPart(<<my_position, your_position>>)

Round1Echo(my_position) == BytesPart(<<my_position>>)

Round1Broadcast(my_position) == BytesPart(<<0, my_position>>)

Round2Message(my_position, your_position) == BytesPart(<<my_position, your_position>>)

\* The behaviour `SerializedGarbage` sends the serialization of [99u8].
GarbageMessage == BytesPart(<<99>>)

\* Number of bytes of the typed message of each slot; -1 is NoMessage, and
\* -2 is the EchoRoundMessage of an echo sub-round.
slot_type(rid, slot) ==
    IF rid.is_echo THEN (IF slot = "normal_broadcast" THEN -2 ELSE -1)
    ELSE IF rid.round_num = 1
         THEN (IF slot = "echo_broadcast" THEN 1 ELSE 2)
    ELSE (IF slot = "direct_message" THEN 2 ELSE -1)

\* ProtocolMessagePart::deserialize::<T>: TRUE when the part deserializes
\* as the type of the slot (assert_is_none for a NoMessage slot).
deserialize_ok(part, ty) ==
    IF ty = -1 THEN is_none(part)
    ELSE IF ty = -2 THEN part.tag = "pack"
    ELSE part.tag = "some" /\ Len(part.bytes) = ty

\* The round object held by a session.
\*   verifier       the id of the party that runs the round (context.id)
\*   id             the round id
\*   round1_sum     Round2.round1_sum
\*   main_payloads  payloads of the main round kept by its echo sub-round
\*   main_artifacts artifacts of the main round kept by its echo sub-round
\*   expected_echos echo broadcasts the echo sub-round compares against
\*   behavior       the Behavior of a round wrapped as MaliciousRound1/2
Round1(id) ==
    [verifier |-> id, id |-> RoundId(1), round1_sum |-> 0, main_payloads |-> EmptyMap,
     main_artifacts |-> EmptyMap, expected_echos |-> EmptyMap, behavior |-> "Lawful"]

Round2(id, sum) ==
    [verifier |-> id, id |-> RoundId(2), round1_sum |-> sum, main_payloads |-> EmptyMap,
     main_artifacts |-> EmptyMap, expected_echos |-> EmptyMap, behavior |-> "Lawful"]

\* MaliciousRound1::new: Round1 wrapped with a behaviour.
MaliciousRound1(id, behavior) == [Round1(id) EXCEPT !.behavior = behavior]

\* MaliciousRound1::finalize wraps the Round2 it gets the same way.
MaliciousRound2(round2, behavior) == [round2 EXCEPT !.behavior = behavior]

\* EchoRound::new: our own echo broadcast is added to the ones received.
EchoRound(verifier, my_echo_broadcast, echo_broadcasts, main_round, payloads, artifacts) ==
    [verifier |-> verifier, id |-> echo(main_round.id),
     round1_sum |-> main_round.round1_sum,
     main_payloads |-> payloads,
     main_artifacts |-> artifacts,
     expected_echos |-> Insert(echo_broadcasts, verifier, my_echo_broadcast),
     behavior |-> main_round.behavior]

\* TransitionInfo of the rounds: new_linear(1), new_linear_terminating(2);
\* the echo sub-round has the transitions of its main round.
round_possible_next_rounds(round) ==
    IF round.id.round_num = 1 THEN {RoundId(2)} ELSE {}

\* usize arithmetic wraps modulo 2^16 on the narrowest target the language
\* supports; the wider targets wrap the same way.
UsizeModulus == 65536

\* IdSet::new_non_threshold: messages from all `ids` make the quorum.
new_non_threshold(ids) == [ids |-> ids, threshold |-> Cardinality(ids)]

\* IdSet::empty
empty == [ids |-> {}, threshold |-> 0]

\* IdSet::is_quorum: the number of the given ids is compared with the
\* threshold.
is_quorum(self, ids) == Cardinality(ids) >= self.threshold

\* An is_quorum_possible that subtracts the number of all banned ids.
is_quorum_possible_counting_all_banned(self, banned_ids) ==
    (Cardinality(self.ids) - Cardinality(banned_ids)) % UsizeModulus >= self.threshold

\* IdSet::is_quorum_possible: the subtraction is the one of usize.
is_quorum_possible(self, banned_ids) ==
    LET ids == self.ids \cap banned_ids
    IN  (Cardinality(self.ids) - Cardinality(ids)) % UsizeModulus >= self.threshold

\* CommunicationInfo::regular(other_ids).
message_destinations(round) == other_ids(round.verifier)

expecting_messages_from(round) == other_ids(round.verifier)

\* make_echo_broadcast / make_normal_broadcast / make_direct_message
make_echo_broadcast(round) ==
    IF round.id = RoundId(1) THEN Round1Echo(ids_to_positions(round.verifier)) ELSE NonePart

make_normal_broadcast(round) ==
    IF round.id = RoundId(1) THEN Round1Broadcast(ids_to_positions(round.verifier))
    ELSE IF round.id.is_echo
         THEN PackPart([s \in (DOMAIN round.expected_echos) \ {round.verifier} |->
                            round.expected_echos[s]])
    ELSE NonePart

\* make_direct_message of Round1 and Round2, and its overrides in
\* MaliciousRound1 and MaliciousRound2: garbage bytes, or the sender's own
\* position in the place of the destination's.
make_direct_message(round, destination) ==
    IF round.id.is_echo THEN NonePart
    ELSE IF round.id.round_num = 1
    THEN IF round.behavior = "SerializedGarbage" THEN GarbageMessage
         ELSE IF round.behavior = "AttributableFailure"
         THEN Round1Message(ids_to_positions(round.verifier), ids_to_positions(round.verifier))
         ELSE Round1Message(ids_to_positions(round.verifier), ids_to_positions(destination))
    ELSE IF round.behavior = "AttributableFailureRound2"
         THEN Round2Message(ids_to_positions(round.verifier), ids_to_positions(round.verifier))
         ELSE Round2Message(ids_to_positions(round.verifier), ids_to_positions(destination))

Sum(f) ==
    LET RECURSIVE S(_)
        S(D) == IF D = {} THEN 0
                ELSE LET k == CHOOSE k \in D : TRUE IN f[k] + S(D \ {k})
    IN  S(DOMAIN f)

\* Results of receive_message: a payload or a ReceiveError.
ReceiveOk(payload) == [result |-> "Ok", payload |-> payload, culprit |-> -1]

ReceiveErr(kind) == [result |-> kind, payload |-> 0, culprit |-> -1]

\* EchoRoundError::InvalidEcho(from) / InvalidBroadcast(from)
ReceiveEchoErr(kind, sender) == [result |-> kind, payload |-> 0, culprit |-> sender]

\* Round1::receive_message and Round2::receive_message of the example:
\* the sender must have addressed the message to our position.
round_receive_message(round, from, direct_message) ==
    IF ids_to_positions(round.verifier) /= direct_message.bytes[2]
    THEN ReceiveErr("Protocol")
    ELSE ReceiveOk(direct_message.bytes[1])

\* EchoRound::receive_message: the pack must hold exactly the echo
\* broadcasts expected from the other parties (an unprovable fault
\* otherwise); every entry is compared with the echo broadcast received
\* in the main round.
echo_receive_message(round, from, normal_broadcast) ==
    LET pack == normal_broadcast.pack
        expected_keys == (DOMAIN round.expected_echos) \ {from}
        differing == {s \in DOMAIN pack : pack[s] /= round.expected_echos[s]}
    IN  IF DOMAIN pack /= expected_keys THEN ReceiveErr("Unprovable")
        ELSE IF differing = {} THEN ReceiveOk(0)
        ELSE LET s == CHOOSE x \in differing : \A y \in differing : x <= y
                 echoed == pack[s]
                 previously == round.expected_echos[s]
             IN  IF verify_part(echoed, s) /= "Ok"
                 THEN ReceiveEchoErr("InvalidEcho", s)
                 ELSE IF metadata(echoed) /= metadata(previously)
                 THEN ReceiveEchoErr("InvalidEcho", s)
                 ELSE ReceiveEchoErr("InvalidBroadcast", s)

\* RoundWrapper::receive_message: every part is deserialized as the type
\* its slot declares before the round's own receive_message runs.
receive_message(round, from, echo_broadcast, normal_broadcast, direct_message) ==
    IF ~deserialize_ok(direct_message, slot_type(round.id, "direct_message"))
    THEN ReceiveErr("InvalidDirectMessage")
    ELSE IF ~deserialize_ok(echo_broadcast, slot_type(round.id, "echo_broadcast"))
    THEN ReceiveErr("InvalidEchoBroadcast")
    ELSE IF ~deserialize_ok(normal_broadcast, slot_type(round.id, "normal_broadcast"))
    THEN ReceiveErr("InvalidNormalBroadcast")
    ELSE IF round.id.is_echo
    THEN echo_receive_message(round, from, normal_broadcast)
    ELSE round_receive_message(round, from, direct_message)

\* A finalize whose Round2 returns the sum of round 2 alone.
round_finalize_without_round1_sum(round, payloads, artifacts) ==
    LET used == IF round.id.is_echo THEN round.main_payloads ELSE payloads
        used_artifacts == IF round.id.is_echo THEN round.main_artifacts ELSE artifacts
        sum == ids_to_positions(round.verifier) + Sum(used)
    IN  IF round.id.round_num = 1
        THEN [outcome |-> "AnotherRound",
              round |-> MaliciousRound2(Round2(round.verifier, sum), round.behavior),
              result |-> 0, payloads |-> used, artifacts |-> used_artifacts]
        ELSE [outcome |-> "Result", round |-> round, result |-> sum,
              payloads |-> used, artifacts |-> used_artifacts]

\* Round1::finalize / Round2::finalize of the example, and
\* EchoRound::finalize which finalizes the main round with the payloads
\* and artifacts kept from it.  The result is the next round, or the
\* protocol's result; `payloads` and `artifacts` are the ones the finalize
\* of the main round was given.
round_finalize(round, payloads, artifacts) ==
    LET used == IF round.id.is_echo THEN round.main_payloads ELSE payloads
        used_artifacts == IF round.id.is_echo THEN round.main_artifacts ELSE artifacts
        sum == ids_to_positions(round.verifier) + Sum(used)
    IN  IF round.id.round_num = 1
        THEN [outcome |-> "AnotherRound",
              round |-> MaliciousRound2(Round2(round.verifier, sum), round.behavior),
              result |-> 0, payloads |-> used, artifacts |-> used_artifacts]
        ELSE [outcome |-> "Result", round |-> round, result |-> sum + round.round1_sum,
              payloads |-> used, artifacts |-> used_artifacts]

\* ------------------------------------------------------------------------
\* Transcript
\* ------------------------------------------------------------------------

\* Transcript::new
NewTranscript ==
    [echo_broadcasts |-> EmptyMap, normal_broadcasts |-> EmptyMap,
     direct_messages |-> EmptyMap, provable_errors |-> EmptyMap,
     unprovable_errors |-> EmptyMap, missing_messages |-> EmptyMap]

\* Transcript::is_banned
transcript_is_banned(transcript, from) ==
    from \in DOMAIN transcript.provable_errors \/ from \in DOMAIN transcript.unprovable_errors

\* A transcript update that overwrites what is registered and never fails.
transcript_update_overwriting(transcript, round_id, echo_broadcasts, normal_broadcasts, direct_messages, provable_errors, unprovable_errors, missing_messages) ==
    [ok |-> TRUE,
     transcript |->
        [echo_broadcasts |-> Insert(transcript.echo_broadcasts, round_id, echo_broadcasts),
         normal_broadcasts |-> Insert(transcript.normal_broadcasts, round_id, normal_broadcasts),
         direct_messages |-> Insert(transcript.direct_messages, round_id, direct_messages),
         provable_errors |->
            [v \in (DOMAIN transcript.provable_errors) \cup (DOMAIN provable_errors) |->
                IF v \in DOMAIN provable_errors THEN provable_errors[v]
                ELSE transcript.provable_errors[v]],
         unprovable_errors |->
            [v \in (DOMAIN transcript.unprovable_errors) \cup (DOMAIN unprovable_errors) |->
                IF v \in DOMAIN unprovable_errors THEN unprovable_errors[v]
                ELSE transcript.unprovable_errors[v]],
         missing_messages |-> Insert(transcript.missing_messages, round_id, missing_messages)]]

\* Transcript::update: a LocalError (ok = FALSE) when the round already
\* has an entry or a party already has an error of the same kind.
transcript_update(transcript, round_id, echo_broadcasts, normal_broadcasts, direct_messages, provable_errors, unprovable_errors, missing_messages) ==
    IF \/ round_id \in DOMAIN transcript.echo_broadcasts
       \/ round_id \in DOMAIN transcript.direct_messages
       \/ (DOMAIN provable_errors) \cap (DOMAIN transcript.provable_errors) /= {}
       \/ (DOMAIN unprovable_errors) \cap (DOMAIN transcript.unprovable_errors) /= {}
       \/ round_id \in DOMAIN transcript.missing_messages
    THEN [ok |-> FALSE, transcript |-> transcript]
    ELSE [ok |-> TRUE,
          transcript |->
            [echo_broadcasts |-> Insert(transcript.echo_broadcasts, round_id, echo_broadcasts),
             normal_broadcasts |-> Insert(transcript.normal_broadcasts, round_id, normal_broadcasts),
             direct_messages |-> Insert(transcript.direct_messages, round_id, direct_messages),
             provable_errors |->
                [v \in (DOMAIN transcript.provable_errors) \cup (DOMAIN provable_errors) |->
                    IF v \in DOMAIN provable_errors THEN provable_errors[v]
                    ELSE transcript.provable_errors[v]],
             unprovable_errors |->
                [v \in (DOMAIN transcript.unprovable_errors) \cup (DOMAIN unprovable_errors) |->
                    IF v \in DOMAIN unprovable_errors THEN unprovable_errors[v]
                    ELSE transcript.unprovable_errors[v]],
             missing_messages |-> Insert(transcript.missing_messages, round_id, missing_messages)]]

\* Transcript::get_echo_broadcast / get_direct_message (and the same
\* lookup for normal broadcasts): TRUE when the message is registered.
transcript_has(map, round_id, from) ==
    round_id \in DOMAIN map /\ from \in DOMAIN map[round_id]

\* SessionReport::new
SessionReport(outcome, result, transcript) ==
    [outcome |-> outcome, result |-> result,
     provable_errors |-> transcript.provable_errors,
     unprovable_errors |-> transcript.unprovable_errors,
     missing_messages |-> transcript.missing_messages]

NoReport ==
    [outcome |-> "None", result |-> 0, provable_errors |-> EmptyMap,
     unprovable_errors |-> EmptyMap, missing_messages |-> EmptyMap]

\* ------------------------------------------------------------------------
\* Evidence
\* ------------------------------------------------------------------------

NoSignedPart ==
    [session_id |-> 0, round_id |-> RoundId(0), payload |-> NonePart,
     signer |-> -1, sig |-> "absent", rng |-> round_rng]

BlankEvidence ==
    [guilty_party |-> -1, description |-> "", kind |-> "",
     direct_message |-> NoSignedPart, echo_broadcast |-> NoSignedPart,
     normal_broadcast |-> NoSignedPart,
     direct_messages |-> EmptyMap, echo_broadcasts |-> EmptyMap,
     combined_echos |-> EmptyMap,
     invalid_echo_sender |-> -1,
     we_received |-> NoSignedPart, echoed_to_us |-> NoSignedPart]

\* required_messages of Round1ProvableError and Round2ProvableError:
\* previous rounds whose direct message is required, and rounds whose
\* combined echos are required.
required_direct_messages(error_round) ==
    IF error_round = RoundId(2) THEN {RoundId(1)} ELSE {}

\* An error that asks for no combined echos of earlier rounds.
no_combined_echos(error_round) == {}

required_combined_echos(error_round) ==
    IF error_round = RoundId(2) THEN {RoundId(1)} ELSE {}

\* An evidence that attaches the required messages the transcript holds
\* and leaves out the ones it does not hold.
new_protocol_error_attaching_present(verifier, echo_broadcast, direct_message, error_round, transcript) ==
    LET dms == {r \in required_direct_messages(error_round) :
                    transcript_has(transcript.direct_messages, r, verifier)}
        ces == {r \in required_combined_echos(error_round) :
                    transcript_has(transcript.normal_broadcasts, echo(r), verifier)}
    IN  [ok |-> TRUE,
         evidence |->
            [BlankEvidence EXCEPT
                !.guilty_party = verifier,
                !.description = "Invalid position",
                !.kind = "Protocol",
                !.direct_message = direct_message,
                !.echo_broadcast = echo_broadcast,
                !.direct_messages = [r \in dms |-> transcript.direct_messages[r][verifier]],
                !.combined_echos =
                    [r \in ces |-> transcript.normal_broadcasts[echo(r)][verifier]]]]

\* Evidence::new_protocol_error: a LocalError (ok = FALSE) when a required
\* message of the guilty party is not in the transcript.
new_protocol_error(verifier, echo_broadcast, direct_message, error_round, transcript) ==
    LET dms == required_direct_messages(error_round)
        ces == required_combined_echos(error_round)
    IN  IF \/ \E r \in dms : ~transcript_has(transcript.direct_messages, r, verifier)
           \/ \E r \in ces : ~transcript_has(transcript.normal_broadcasts, echo(r), verifier)
        THEN [ok |-> FALSE, evidence |-> BlankEvidence]
        ELSE [ok |-> TRUE,
              evidence |->
                [BlankEvidence EXCEPT
                    !.guilty_party = verifier,
                    !.description = "Invalid position",
                    !.kind = "Protocol",
                    !.direct_message = direct_message,
                    !.echo_broadcast = echo_broadcast,
                    !.direct_messages = [r \in dms |-> transcript.direct_messages[r][verifier]],
                    !.combined_echos =
                        [r \in ces |-> transcript.normal_broadcasts[echo(r)][verifier]]]]

\* Evidence::new_echo_round_error.  InvalidEcho: the sender of the pack is
\* guilty.  InvalidBroadcast(from): the party `from` whose broadcast differs
\* is guilty; its broadcast as we received it is taken from the transcript
\* (a LocalError when it is not there).
new_echo_round_error(verifier, normal_broadcast, error, culprit, transcript) ==
    IF error = "InvalidEcho"
    THEN [ok |-> TRUE,
          evidence |->
            [BlankEvidence EXCEPT
                !.guilty_party = verifier,
                !.description = "InvalidEcho",
                !.kind = "InvalidEchoPack",
                !.normal_broadcast = normal_broadcast,
                !.invalid_echo_sender = culprit]]
    ELSE LET round_id == non_echo(normal_broadcast.round_id)
         IN  IF \/ ~transcript_has(transcript.echo_broadcasts, round_id, culprit)
                \/ culprit \notin DOMAIN normal_broadcast.payload.pack
             THEN [ok |-> FALSE, evidence |-> BlankEvidence]
             ELSE [ok |-> TRUE,
                   evidence |->
                     [BlankEvidence EXCEPT
                        !.guilty_party = culprit,
                        !.description = "InvalidBroadcast",
                        !.kind = "MismatchedBroadcasts",
                        !.we_received = transcript.echo_broadcasts[round_id][culprit],
                        !.echoed_to_us = normal_broadcast.payload.pack[culprit]]]

\* Evidence::new_invalid_direct_message / _echo_broadcast / _normal_broadcast
new_invalid_direct_message(verifier, direct_message) ==
    [BlankEvidence EXCEPT
        !.guilty_party = verifier, !.description = "InvalidDirectMessage",
        !.kind = "InvalidDirectMessage", !.direct_message = direct_message]

new_invalid_echo_broadcast(verifier, echo_broadcast) ==
    [BlankEvidence EXCEPT
        !.guilty_party = verifier, !.description = "InvalidEchoBroadcast",
        !.kind = "InvalidEchoBroadcast", !.echo_broadcast = echo_broadcast]

new_invalid_normal_broadcast(verifier, normal_broadcast) ==
    [BlankEvidence EXCEPT
        !.guilty_party = verifier, !.description = "InvalidNormalBroadcast",
        !.kind = "InvalidNormalBroadcast", !.normal_broadcast = normal_broadcast]

guilty_party(evidence) == evidence.guilty_party

\* verify_direct_message_is_invalid and its siblings: the part does not
\* hold a message of the type the round declares for the slot.
verify_is_invalid(part, rid, slot) ==
    IF ~deserialize_ok(part, slot_type(rid, slot)) THEN "Ok" ELSE "InvalidEvidence"

\* verify_evidence of Round1ProvableError and Round2ProvableError: the
\* attached messages deserialize as the types of the rounds.
verify_messages_constitute_error(error_round, direct_message, combined_echos) ==
    IF ~deserialize_ok(direct_message, slot_type(error_round, "direct_message"))
    THEN "InvalidEvidence"
    ELSE IF error_round /= RoundId(2) THEN "Ok"
    ELSE IF RoundId(1) \notin DOMAIN combined_echos THEN "InvalidEvidence"
    ELSE IF \A s \in DOMAIN combined_echos[RoundId(1)] :
                deserialize_ok(combined_echos[RoundId(1)][s],
                               slot_type(RoundId(1), "echo_broadcast"))
    THEN "Ok"
    ELSE "InvalidEvidence"

\* TRUE when the attached message `sp` is signed by `verifier` for the
\* session `session_id` and the round `round_id`.
attached_message_ok(sp, verifier, session_id, round_id) ==
    /\ verify_part(sp, verifier) = "Ok"
    /\ sp.session_id = session_id
    /\ sp.round_id = round_id

\* A verification that trusts the echo broadcasts inside a combined echo
\* pack.
protocol_evidence_verify_trusting_packs(evidence, verifier) ==
    LET session_id == evidence.direct_message.session_id
        round_id == evidence.direct_message.round_id
        packs == evidence.combined_echos
    IN  IF verify_part(evidence.direct_message, verifier) /= "Ok"
        THEN "InvalidEvidence"
        ELSE IF \E r \in DOMAIN evidence.direct_messages :
                    ~attached_message_ok(evidence.direct_messages[r], verifier, session_id, r)
        THEN "InvalidEvidence"
        ELSE IF ~attached_message_ok(evidence.echo_broadcast, verifier, session_id, round_id)
        THEN "InvalidEvidence"
        ELSE IF \E r \in DOMAIN evidence.echo_broadcasts :
                    ~attached_message_ok(evidence.echo_broadcasts[r], verifier, session_id, r)
        THEN "InvalidEvidence"
        ELSE IF \E r \in DOMAIN packs :
                    \/ verify_part(packs[r], verifier) /= "Ok"
                    \/ packs[r].session_id /= session_id
                    \/ non_echo(packs[r].round_id) /= r
                    \/ packs[r].payload.tag /= "pack"
        THEN "InvalidEvidence"
        ELSE verify_messages_constitute_error(round_id, evidence.direct_message.payload,
                [r \in DOMAIN packs |->
                    [s \in DOMAIN packs[r].payload.pack |-> packs[r].payload.pack[s].payload]])

\* ProtocolEvidence::verify
protocol_evidence_verify(evidence, verifier) ==
    LET session_id == evidence.direct_message.session_id
        round_id == evidence.direct_message.round_id
        packs == evidence.combined_echos
    IN  IF verify_part(evidence.direct_message, verifier) /= "Ok"
        THEN "InvalidEvidence"
        ELSE IF \E r \in DOMAIN evidence.direct_messages :
                    ~attached_message_ok(evidence.direct_messages[r], verifier, session_id, r)
        THEN "InvalidEvidence"
        ELSE IF ~attached_message_ok(evidence.echo_broadcast, verifier, session_id, round_id)
        THEN "InvalidEvidence"
        ELSE IF \E r \in DOMAIN evidence.echo_broadcasts :
                    ~attached_message_ok(evidence.echo_broadcasts[r], verifier, session_id, r)
        THEN "InvalidEvidence"
        ELSE IF \E r \in DOMAIN packs :
                    \/ verify_part(packs[r], verifier) /= "Ok"
                    \/ packs[r].session_id /= session_id
                    \/ non_echo(packs[r].round_id) /= r
                    \/ packs[r].payload.tag /= "pack"
                    \/ \E s \in DOMAIN packs[r].payload.pack :
                          ~attached_message_ok(packs[r].payload.pack[s], s, session_id, r)
        THEN "InvalidEvidence"
        ELSE verify_messages_constitute_error(round_id, evidence.direct_message.payload,
                [r \in DOMAIN packs |->
                    [s \in DOMAIN packs[r].payload.pack |-> packs[r].payload.pack[s].payload]])

\* InvalidEchoPackEvidence::verify: the pack of the guilty party holds an
\* echo of `invalid_echo_sender` that is badly signed or from another round
\* or session.
invalid_echo_pack_verify(evidence, verifier) ==
    LET pack_message == evidence.normal_broadcast
        sender == evidence.invalid_echo_sender
    IN  IF verify_part(pack_message, verifier) /= "Ok" THEN "InvalidEvidence"
        ELSE IF pack_message.payload.tag /= "pack" THEN "InvalidEvidence"
        ELSE IF sender \notin DOMAIN pack_message.payload.pack THEN "InvalidEvidence"
        ELSE IF verify_part(pack_message.payload.pack[sender], sender) /= "Ok" THEN "Ok"
        ELSE IF metadata(pack_message.payload.pack[sender]) /= metadata(pack_message) THEN "Ok"
        ELSE "InvalidEvidence"

\* A verification that does not compare the payloads of the two broadcasts.
mismatched_broadcasts_verify_any_payloads(evidence, verifier) ==
    IF \/ verify_part(evidence.we_received, verifier) /= "Ok"
       \/ verify_part(evidence.echoed_to_us, verifier) /= "Ok"
    THEN "InvalidEvidence"
    ELSE IF metadata(evidence.we_received) = metadata(evidence.echoed_to_us)
    THEN "Ok"
    ELSE "InvalidEvidence"

\* MismatchedBroadcastsEvidence::verify: two messages signed by `verifier`
\* with the same metadata and different payloads.
mismatched_broadcasts_verify(evidence, verifier) ==
    IF \/ verify_part(evidence.we_received, verifier) /= "Ok"
       \/ verify_part(evidence.echoed_to_us, verifier) /= "Ok"
    THEN "InvalidEvidence"
    ELSE IF /\ metadata(evidence.we_received) = metadata(evidence.echoed_to_us)
            /\ evidence.we_received.payload /= evidence.echoed_to_us.payload
    THEN "Ok"
    ELSE "InvalidEvidence"

\* InvalidDirectMessageEvidence::verify and its siblings for the broadcasts
invalid_message_verify(signed_part, verifier, slot) ==
    IF verify_part(signed_part, verifier) /= "Ok" THEN "InvalidEvidence"
    ELSE verify_is_invalid(signed_part.payload, signed_part.round_id, slot)

\* Evidence::verify: only the evidence and the key of the party are read.
verify(evidence, party) ==
    IF evidence.kind = "Protocol" THEN protocol_evidence_verify(evidence, party)
    ELSE IF evidence.kind = "InvalidDirectMessage"
    THEN invalid_message_verify(evidence.direct_message, party, "direct_message")
    ELSE IF evidence.kind = "InvalidEchoBroadcast"
    THEN invalid_message_verify(evidence.echo_broadcast, party, "echo_broadcast")
    ELSE IF evidence.kind = "InvalidNormalBroadcast"
    THEN invalid_message_verify(evidence.normal_broadcast, party, "normal_broadcast")
    ELSE IF evidence.kind = "InvalidEchoPack" THEN invalid_echo_pack_verify(evidence, party)
    ELSE IF evidence.kind = "MismatchedBroadcasts"
    THEN mismatched_broadcasts_verify(evidence, party)
    ELSE "InvalidEvidence"

\* ------------------------------------------------------------------------
\* RoundAccumulator
\* ------------------------------------------------------------------------

\* RoundAccumulator::new
NewAccumulator(expecting) ==
    [still_have_not_sent_messages |-> expecting,
     expecting_messages_from |-> expecting,
     processing |-> {},
     payloads |-> EmptyMap,
     artifacts |-> EmptyMap,
     cached |-> EmptyMap,
     echo_broadcasts |-> EmptyMap,
     normal_broadcasts |-> EmptyMap,
     direct_messages |-> EmptyMap,
     provable_errors |-> EmptyMap,
     unprovable_errors |-> EmptyMap]

\* A can_finalize that only asks whether everybody has responded.
can_finalize_all_responded(accum) ==
    IF accum.still_have_not_sent_messages = {} THEN "Yes" ELSE "NotYet"

\* A can_finalize that answers Yes only while nobody is banned.
can_finalize_while_nobody_banned(accum) ==
    IF /\ \A key \in accum.expecting_messages_from : key \in DOMAIN accum.payloads
       /\ DOMAIN accum.provable_errors = {}
       /\ DOMAIN accum.unprovable_errors = {}
    THEN "Yes"
    ELSE IF accum.still_have_not_sent_messages /= {} THEN "NotYet"
    ELSE "Never"

\* A can_finalize that answers Yes only once a payload was recorded.
can_finalize_after_a_payload(accum) ==
    IF /\ DOMAIN accum.payloads /= {}
       /\ \A key \in accum.expecting_messages_from : key \in DOMAIN accum.payloads
    THEN "Yes"
    ELSE IF accum.still_have_not_sent_messages /= {} THEN "NotYet"
    ELSE "Never"

\* RoundAccumulator::can_finalize
can_finalize(accum) ==
    IF \A key \in accum.expecting_messages_from : key \in DOMAIN accum.payloads
    THEN "Yes"
    ELSE IF accum.still_have_not_sent_messages /= {} THEN "NotYet"
    ELSE "Never"

\* RoundAccumulator::is_banned
is_banned(accum, from) ==
    from \in DOMAIN accum.provable_errors \/ from \in DOMAIN accum.unprovable_errors

message_is_being_processed(accum, from) == from \in accum.processing

message_is_cached(accum, from, round_id) ==
    from \in DOMAIN accum.cached /\ round_id \in DOMAIN accum.cached[from]

\* RoundAccumulator::register_unprovable_error: the error is inserted; a
\* LocalError (ok = FALSE) when one was registered already.
register_unprovable_error(accum, from, error) ==
    [ok |-> from \notin DOMAIN accum.unprovable_errors,
     accum |-> [accum EXCEPT !.unprovable_errors = Insert(@, from, error)]]

\* RoundAccumulator::register_provable_error
register_provable_error(accum, from, evidence) ==
    [ok |-> from \notin DOMAIN accum.provable_errors,
     accum |-> [accum EXCEPT !.provable_errors = Insert(@, from, evidence)]]

\* RoundAccumulator::mark_processing
mark_processing(accum, message) ==
    [ok |-> message.from \notin accum.processing,
     accum |-> [accum EXCEPT !.processing = @ \cup {message.from}]]

\* RoundAccumulator::cache_message
cache_message(accum, message) ==
    LET from == message.from
        round_id == message.message.direct_message.round_id
        cached == IF from \in DOMAIN accum.cached THEN accum.cached[from] ELSE EmptyMap
    IN  [ok |-> round_id \notin DOMAIN cached,
         accum |-> [accum EXCEPT !.cached = Insert(@, from, Insert(cached, round_id, message))]]

\* RoundAccumulator::add_artifact; the rounds of the example attach the
\* unit artifact to every direct message, the echo sub-round none.
add_artifact(accum, destination, has_artifact) ==
    IF ~has_artifact THEN [ok |-> TRUE, accum |-> accum]
    ELSE [ok |-> destination \notin DOMAIN accum.artifacts,
          accum |-> [accum EXCEPT !.artifacts = Insert(@, destination, 0)]]

\* The three parts are stored only when they hold a payload.
store_parts(accum, from, message) ==
    [accum EXCEPT
        !.echo_broadcasts =
            IF ~is_none(message.echo_broadcast.payload)
            THEN Insert(@, from, message.echo_broadcast) ELSE @,
        !.normal_broadcasts =
            IF ~is_none(message.normal_broadcast.payload)
            THEN Insert(@, from, message.normal_broadcast) ELSE @,
        !.direct_messages =
            IF ~is_none(message.direct_message.payload)
            THEN Insert(@, from, message.direct_message) ELSE @]

\* The `match error.0` block of add_processed_message: the evidence for a
\* provable error is built and registered, an unprovable error is recorded.
register_receive_error(accum, transcript, from, message, res) ==
    IF res.result = "InvalidDirectMessage"
    THEN register_provable_error(accum, from,
            new_invalid_direct_message(from, message.direct_message))
    ELSE IF res.result = "InvalidEchoBroadcast"
    THEN register_provable_error(accum, from,
            new_invalid_echo_broadcast(from, message.echo_broadcast))
    ELSE IF res.result = "InvalidNormalBroadcast"
    THEN register_provable_error(accum, from,
            new_invalid_normal_broadcast(from, message.normal_broadcast))
    ELSE IF res.result = "Protocol"
    THEN LET ev == new_protocol_error(from, message.echo_broadcast,
                        message.direct_message, message.direct_message.round_id,
                        transcript)
         IN  IF ~ev.ok THEN [ok |-> FALSE, accum |-> accum]
             ELSE register_provable_error(accum, from, ev.evidence)
    ELSE IF res.result = "Unprovable"
    THEN [ok |-> TRUE,
          accum |-> [accum EXCEPT !.unprovable_errors = Insert(@, from, "Unprovable")]]
    ELSE IF res.result \in {"InvalidEcho", "InvalidBroadcast"}
    THEN LET ev == new_echo_round_error(from, message.normal_broadcast,
                        res.result, res.culprit, transcript)
         IN  IF ~ev.ok THEN [ok |-> FALSE, accum |-> accum]
             ELSE register_provable_error(accum, from, ev.evidence)
    ELSE [ok |-> FALSE, accum |-> accum]

\* An add_processed_message that does not require the sender to be in the
\* still-unsent set.
add_processed_message_unchecked(accum, transcript, processed) ==
    LET from == processed.message.from
        message == processed.message.message
        res == processed.processed
        removed == [accum EXCEPT !.still_have_not_sent_messages = @ \ {from}]
    IN  IF from \in DOMAIN accum.payloads THEN [ok |-> FALSE, accum |-> accum]
        ELSE IF res.result = "Ok"
        THEN [ok |-> TRUE,
              accum |-> [store_parts(removed, from, message) EXCEPT
                            !.payloads = Insert(@, from, res.payload)]]
        ELSE register_receive_error(removed, transcript, from, message, res)

\* An add_processed_message that keeps only the payload recorded last.
add_processed_message_keeping_last(accum, transcript, processed) ==
    LET from == processed.message.from
        message == processed.message.message
        res == processed.processed
        removed == [accum EXCEPT !.still_have_not_sent_messages = @ \ {from}]
    IN  IF from \in DOMAIN accum.payloads THEN [ok |-> FALSE, accum |-> accum]
        ELSE IF from \notin accum.still_have_not_sent_messages
        THEN [ok |-> FALSE, accum |-> accum]
        ELSE IF res.result = "Ok"
        THEN [ok |-> TRUE,
              accum |-> [store_parts(removed, from, message) EXCEPT
                            !.payloads = (from :> res.payload)]]
        ELSE register_receive_error(removed, transcript, from, message, res)

\* An add_processed_message that stores the parts of the message whatever
\* the result of its processing.
add_processed_message_storing_parts(accum, transcript, processed) ==
    LET from == processed.message.from
        message == processed.message.message
        res == processed.processed
        removed == [accum EXCEPT !.still_have_not_sent_messages = @ \ {from}]
    IN  IF from \in DOMAIN accum.payloads THEN [ok |-> FALSE, accum |-> accum]
        ELSE IF from \notin accum.still_have_not_sent_messages
        THEN [ok |-> FALSE, accum |-> accum]
        ELSE IF res.result = "Ok"
        THEN [ok |-> TRUE,
              accum |-> [store_parts(removed, from, message) EXCEPT
                            !.payloads = Insert(@, from, res.payload)]]
        ELSE register_receive_error(store_parts(removed, from, message),
                                    transcript, from, message, res)

\* RoundAccumulator::add_processed_message
add_processed_message(accum, transcript, processed) ==
    LET from == processed.message.from
        message == processed.message.message
        res == processed.processed
        removed == [accum EXCEPT !.still_have_not_sent_messages = @ \ {from}]
    IN  IF from \in DOMAIN accum.payloads THEN [ok |-> FALSE, accum |-> accum]
        ELSE IF from \notin accum.still_have_not_sent_messages
        THEN [ok |-> FALSE, accum |-> accum]
        ELSE IF res.result = "Ok"
        THEN [ok |-> TRUE,
              accum |-> [store_parts(removed, from, message) EXCEPT
                            !.payloads = Insert(@, from, res.payload)]]
        ELSE register_receive_error(removed, transcript, from, message, res)

\* filter_messages: the cached messages for `round_id`, in the order of the
\* map's keys (the senders).
RECURSIVE filter_from(_, _, _)
filter_from(messages, round_id, senders) ==
    IF senders = {} THEN <<>>
    ELSE LET s == CHOOSE x \in senders : \A y \in senders : x <= y
             rest == filter_from(messages, round_id, senders \ {s})
         IN  IF round_id \in DOMAIN messages[s]
             THEN <<messages[s][round_id]>> \o rest
             ELSE rest

filter_messages(messages, round_id) == filter_from(messages, round_id, DOMAIN messages)

\* ------------------------------------------------------------------------
\* Session
\* ------------------------------------------------------------------------

\* Session::new_for_next_round: the broadcasts of the round are made and
\* signed once; with an echo broadcast, the only next round is the echo
\* sub-round.
new_for_next_round(verifier, round, transcript) ==
    LET echo_part == make_echo_broadcast(round)
        normal_part == make_normal_broadcast(round)
    IN  [session_id |-> OurSessionId,
         verifier |-> verifier,
         round |-> round,
         echo_broadcast |->
            SignedMessagePart(round_rng, verifier, OurSessionId, round.id, echo_part),
         normal_broadcast |->
            SignedMessagePart(round_rng, verifier, OurSessionId, round.id, normal_part),
         possible_next_rounds |->
            IF is_none(echo_part) THEN round_possible_next_rounds(round)
            ELSE {echo(round.id)},
         transcript |-> transcript]

\* Session::new with the entry point of the example protocol.
NewSession(id) == new_for_next_round(id, Round1(id), NewTranscript)

\* A make_message that signs the broadcasts anew for every destination.
make_message_signing_broadcasts(session, destination) ==
    [direct_message |->
        SignedMessagePart(message_rng(destination),
                          session.verifier, session.session_id, session.round.id,
                          make_direct_message(session.round, destination)),
     echo_broadcast |->
        SignedMessagePart(message_rng(destination),
                          session.verifier, session.session_id, session.round.id,
                          make_echo_broadcast(session.round)),
     normal_broadcast |->
        SignedMessagePart(message_rng(destination),
                          session.verifier, session.session_id, session.round.id,
                          make_normal_broadcast(session.round))]

\* Session::make_message
make_message(session, destination) ==
    [direct_message |->
        SignedMessagePart(message_rng(destination),
                          session.verifier, session.session_id, session.round.id,
                          make_direct_message(session.round, destination)),
     echo_broadcast |-> session.echo_broadcast,
     normal_broadcast |-> session.normal_broadcast]

\* Session::make_accumulator
make_accumulator(session) == NewAccumulator(expecting_messages_from(session.round))

\* The caller makes the message for every destination of the round and
\* adds the artifacts of the messages to the accumulator.
RECURSIVE add_artifacts(_, _, _)
add_artifacts(party_session, party_accum, destinations) ==
    IF destinations = {} THEN [ok |-> TRUE, accum |-> party_accum]
    ELSE LET d == CHOOSE x \in destinations : \A y \in destinations : x <= y
             r == add_artifact(party_accum, d, ~party_session.round.id.is_echo)
         IN  IF ~r.ok THEN r
             ELSE add_artifacts(party_session, r.accum, destinations \ {d})

\* The accumulator of a session once the messages of its round are made.
entered_accumulator(session) ==
    add_artifacts(session, make_accumulator(session),
                  message_destinations(session.round)).accum

VerifiedMessage(from, message) == [from |-> from, message |-> message]

NoMessage == VerifiedMessage(-1, Message(-1, 0, RoundId(0), NonePart, NonePart, NonePart))

PreprocessError(accum, from, err) ==
    LET r == register_unprovable_error(accum, from, err)
    IN  [ok |-> r.ok, outcome |-> "Error", error |-> err, accum |-> r.accum,
         verified |-> NoMessage]

\* A classification that takes every round other than the current one for
\* a next round.
message_for_any_round(session, accum, from, message_round_id) ==
    IF message_round_id = session.round.id
    THEN IF message_is_being_processed(accum, from)
         THEN "Message from this party is already being processed"
         ELSE "ThisRound"
    ELSE IF message_is_cached(accum, from, message_round_id)
    THEN "Message is already cached"
    ELSE "NextRound"

\* A classification that does not look into the cache.
message_for_caching_again(session, accum, from, message_round_id) ==
    IF message_round_id = session.round.id
    THEN IF message_is_being_processed(accum, from)
         THEN "Message from this party is already being processed"
         ELSE "ThisRound"
    ELSE IF message_round_id \in session.possible_next_rounds
    THEN "NextRound"
    ELSE "Unexpected message round ID"

\* The `message_for` block of preprocess_message: the message is for this
\* round, for a possible next round, or is rejected with an error.
message_for(session, accum, from, message_round_id) ==
    IF message_round_id = session.round.id
    THEN IF message_is_being_processed(accum, from)
         THEN "Message from this party is already being processed"
         ELSE "ThisRound"
    ELSE IF message_round_id \in session.possible_next_rounds
    THEN IF message_is_cached(accum, from, message_round_id)
         THEN "Message is already cached"
         ELSE "NextRound"
    ELSE "Unexpected message round ID"

\* A hand-over that marks or caches the message before its signature is
\* checked.
verify_and_dispatch_before_check(accum, from, message, for) ==
    LET r == IF for = "ThisRound" THEN mark_processing(accum, VerifiedMessage(from, message))
             ELSE cache_message(accum, VerifiedMessage(from, message))
    IN  IF verify_message(message, from) = "InvalidSignature"
        THEN PreprocessError(r.accum, from, "The signature could not be deserialized.")
        ELSE IF verify_message(message, from) = "SignatureMismatch"
        THEN PreprocessError(r.accum, from, "Message verification failed.")
        ELSE [ok |-> r.ok, outcome |-> IF for = "ThisRound" THEN "ToProcess" ELSE "Cached",
              error |-> "", accum |-> r.accum,
              verified |-> IF for = "ThisRound" THEN VerifiedMessage(from, message)
                           ELSE NoMessage]

\* The signature check and the hand-over of preprocess_message.
verify_and_dispatch(accum, from, message, for) ==
    IF verify_message(message, from) = "InvalidSignature"
    THEN PreprocessError(accum, from, "The signature could not be deserialized.")
    ELSE IF verify_message(message, from) = "SignatureMismatch"
    THEN PreprocessError(accum, from, "Message verification failed.")
    ELSE IF for = "ThisRound"
    THEN LET r == mark_processing(accum, VerifiedMessage(from, message))
         IN  [ok |-> r.ok, outcome |-> "ToProcess", error |-> "", accum |-> r.accum,
              verified |-> VerifiedMessage(from, message)]
    ELSE LET r == cache_message(accum, VerifiedMessage(from, message))
         IN  [ok |-> r.ok, outcome |-> "Cached", error |-> "", accum |-> r.accum,
              verified |-> NoMessage]

\* A preprocess_message that does not look at the session id.
preprocess_message_any_session(session, accum, from, message) ==
    IF transcript_is_banned(session.transcript, from) \/ is_banned(accum, from)
    THEN [ok |-> TRUE, outcome |-> "Error", error |-> "The sender is banned",
          accum |-> accum, verified |-> NoMessage]
    ELSE IF ~unify_metadata(message)
    THEN PreprocessError(accum, from, "Mismatched metadata in bundled messages.")
    ELSE LET for == message_for(session, accum, from, message.direct_message.round_id)
         IN  IF for \notin {"ThisRound", "NextRound"}
             THEN PreprocessError(accum, from, for)
             ELSE verify_and_dispatch(accum, from, message, for)

\* A preprocess_message that looks at the ban after the other checks.
preprocess_message_ban_checked_last(session, accum, from, message) ==
    IF ~unify_metadata(message)
    THEN PreprocessError(accum, from, "Mismatched metadata in bundled messages.")
    ELSE IF message.direct_message.session_id /= session.session_id
    THEN PreprocessError(accum, from, "The received message has an incorrect session ID")
    ELSE LET for == message_for(session, accum, from, message.direct_message.round_id)
         IN  IF for \notin {"ThisRound", "NextRound"}
             THEN PreprocessError(accum, from, for)
             ELSE IF verify_message(message, from) /= "Ok"
             THEN verify_and_dispatch(accum, from, message, for)
             ELSE IF transcript_is_banned(session.transcript, from) \/ is_banned(accum, from)
             THEN [ok |-> TRUE, outcome |-> "Error", error |-> "The sender is banned",
                   accum |-> accum, verified |-> NoMessage]
             ELSE verify_and_dispatch(accum, from, message, for)

\* Session::preprocess_message
preprocess_message(session, accum, from, message) ==
    IF transcript_is_banned(session.transcript, from) \/ is_banned(accum, from)
    THEN [ok |-> TRUE, outcome |-> "Error", error |-> "The sender is banned",
          accum |-> accum, verified |-> NoMessage]
    ELSE IF ~unify_metadata(message)
    THEN PreprocessError(accum, from, "Mismatched metadata in bundled messages.")
    ELSE IF message.direct_message.session_id /= session.session_id
    THEN PreprocessError(accum, from, "The received message has an incorrect session ID")
    ELSE LET for == message_for(session, accum, from, message.direct_message.round_id)
         IN  IF for \notin {"ThisRound", "NextRound"}
             THEN PreprocessError(accum, from, for)
             ELSE verify_and_dispatch(accum, from, message, for)

\* Session::process_message
process_message(session, message) ==
    [message |-> message,
     processed |-> receive_message(session.round, message.from,
                                   message.message.echo_broadcast.payload,
                                   message.message.normal_broadcast.payload,
                                   message.message.direct_message.payload)]

\* A terminate that does not record the peers that have not sent.
terminate_without_missing(session, accum) ==
    LET u == transcript_update(session.transcript, session.round.id,
                accum.echo_broadcasts, accum.normal_broadcasts, accum.direct_messages,
                accum.provable_errors, accum.unprovable_errors, {})
    IN  [ok |-> u.ok, report |-> SessionReport("NotEnoughMessages", 0, u.transcript)]

\* Session::terminate
terminate(session, accum) ==
    LET u == transcript_update(session.transcript, session.round.id,
                accum.echo_broadcasts, accum.normal_broadcasts, accum.direct_messages,
                accum.provable_errors, accum.unprovable_errors,
                accum.still_have_not_sent_messages)
    IN  [ok |-> u.ok, report |-> SessionReport("NotEnoughMessages", 0, u.transcript)]

\* The cached messages handed to a regular next round: the ones of senders
\* the transcript does not ban.
not_banned(transcript, messages) ==
    SelectSeq(messages, LAMBDA m : ~transcript_is_banned(transcript, m.from))

\* The results of finalize_round.  finalize_called, finalize_payloads,
\* finalize_artifacts and finalize_returned record the call of the round's
\* finalize: whether it was made, the payloads and artifacts handed to it,
\* the id of the round it returned.
NoRound == RoundId(0)

FinalizeLocalError(session) ==
    [ok |-> FALSE, outcome |-> "LocalError", session |-> session,
     cached_messages |-> <<>>, report |-> NoReport,
     finalize_called |-> FALSE, finalize_payloads |-> EmptyMap,
     finalize_artifacts |-> EmptyMap, finalize_returned |-> NoRound]

\* An echo branch that hands the echo sub-round the artifacts of the round
\* and none of its payloads.
finalize_to_echo_round_without_payloads(session, accum, transcript) ==
    LET round == EchoRound(session.verifier, session.echo_broadcast,
                           transcript.echo_broadcasts[session.round.id],
                           session.round, EmptyMap, accum.artifacts)
    IN  [ok |-> TRUE, outcome |-> "AnotherRound",
         session |-> new_for_next_round(session.verifier, round, transcript),
         cached_messages |-> filter_messages(accum.cached, round.id),
         report |-> NoReport,
         finalize_called |-> FALSE, finalize_payloads |-> EmptyMap,
         finalize_artifacts |-> EmptyMap, finalize_returned |-> NoRound]

\* The echo branch of finalize_round: the next round is the echo sub-round
\* and the round's finalize is put off.
finalize_to_echo_round(session, accum, transcript) ==
    LET round == EchoRound(session.verifier, session.echo_broadcast,
                           transcript.echo_broadcasts[session.round.id],
                           session.round, accum.payloads, accum.artifacts)
    IN  [ok |-> TRUE, outcome |-> "AnotherRound",
         session |-> new_for_next_round(session.verifier, round, transcript),
         cached_messages |-> filter_messages(accum.cached, round.id),
         report |-> NoReport,
         finalize_called |-> FALSE, finalize_payloads |-> EmptyMap,
         finalize_artifacts |-> EmptyMap, finalize_returned |-> NoRound]

\* The branches of finalize_round after the round's finalize returned.
finalize_finished(session, transcript, f) ==
    [ok |-> TRUE, outcome |-> "Finished", session |-> session,
     cached_messages |-> <<>>,
     report |-> SessionReport("Result", f.result, transcript),
     finalize_called |-> TRUE, finalize_payloads |-> f.payloads,
     finalize_artifacts |-> f.artifacts, finalize_returned |-> NoRound]

\* A next round constructed with the transcript the session had before the
\* update.
finalize_another_round_uncommitted(session, accum, transcript, f, round) ==
    [ok |-> TRUE, outcome |-> "AnotherRound",
     session |-> new_for_next_round(session.verifier, round, session.transcript),
     cached_messages |-> not_banned(transcript, filter_messages(accum.cached, round.id)),
     report |-> NoReport,
     finalize_called |-> TRUE, finalize_payloads |-> f.payloads,
     finalize_artifacts |-> f.artifacts, finalize_returned |-> round.id]

\* A regular next round that is handed the cached messages of banned
\* senders too.
finalize_another_round_keeping_banned(session, accum, transcript, f, round) ==
    [ok |-> TRUE, outcome |-> "AnotherRound",
     session |-> new_for_next_round(session.verifier, round, transcript),
     cached_messages |-> filter_messages(accum.cached, round.id),
     report |-> NoReport,
     finalize_called |-> TRUE, finalize_payloads |-> f.payloads,
     finalize_artifacts |-> f.artifacts, finalize_returned |-> round.id]

finalize_another_round(session, accum, transcript, f, round) ==
    [ok |-> TRUE, outcome |-> "AnotherRound",
     session |-> new_for_next_round(session.verifier, round, transcript),
     cached_messages |-> not_banned(transcript, filter_messages(accum.cached, round.id)),
     report |-> NoReport,
     finalize_called |-> TRUE, finalize_payloads |-> f.payloads,
     finalize_artifacts |-> f.artifacts, finalize_returned |-> round.id]

\* Session::finalize_round of the older variant of the engine
\* (src/manul/src/session.rs): the round returned by the round's finalize
\* is taken as it is.
older_finalize_round(session, accum, returned_id) ==
    LET u == transcript_update(session.transcript, session.round.id,
                accum.echo_broadcasts, accum.normal_broadcasts, accum.direct_messages,
                accum.provable_errors, accum.unprovable_errors,
                accum.still_have_not_sent_messages)
        f == round_finalize(session.round, accum.payloads, accum.artifacts)
    IN  IF ~u.ok THEN FinalizeLocalError(session)
        ELSE IF ~is_none(session.echo_broadcast.payload)
        THEN finalize_to_echo_round(session, accum, u.transcript)
        ELSE IF f.outcome = "Result"
        THEN finalize_finished(session, u.transcript, f)
        ELSE finalize_another_round(session, accum, u.transcript, f,
                                    [f.round EXCEPT !.id = returned_id])

\* A finalize_round that never inserts an echo sub-round.
finalize_round_without_echo_round(session, accum, returned_id) ==
    LET u == transcript_update(session.transcript, session.round.id,
                accum.echo_broadcasts, accum.normal_broadcasts, accum.direct_messages,
                accum.provable_errors, accum.unprovable_errors,
                accum.still_have_not_sent_messages)
        f == round_finalize(session.round, accum.payloads, accum.artifacts)
    IN  IF ~u.ok THEN FinalizeLocalError(session)
        ELSE IF f.outcome = "Result"
        THEN finalize_finished(session, u.transcript, f)
        ELSE finalize_another_round(session, accum, u.transcript, f,
                                    [f.round EXCEPT !.id = returned_id])

\* Session::finalize_round.  `returned_id` is the id of the round that the
\* round's finalize returns when it returns another round.
finalize_round(session, accum, returned_id) ==
    LET u == transcript_update(session.transcript, session.round.id,
                accum.echo_broadcasts, accum.normal_broadcasts, accum.direct_messages,
                accum.provable_errors, accum.unprovable_errors,
                accum.still_have_not_sent_messages)
        f == round_finalize(session.round, accum.payloads, accum.artifacts)
    IN  IF ~u.ok THEN FinalizeLocalError(session)
        ELSE IF ~is_none(session.echo_broadcast.payload)
        THEN finalize_to_echo_round(session, accum, u.transcript)
        ELSE IF f.outcome = "Result"
        THEN finalize_finished(session, u.transcript, f)
        ELSE IF returned_id \notin session.possible_next_rounds
        THEN [FinalizeLocalError(session) EXCEPT
                !.finalize_called = TRUE,
                !.finalize_payloads = f.payloads,
                !.finalize_artifacts = f.artifacts,
                !.finalize_returned = returned_id]
        ELSE finalize_another_round(session, accum, u.transcript, f,
                                    [f.round EXCEPT !.id = returned_id])

\* ------------------------------------------------------------------------
\* The peers: messages the environment can deliver
\* ------------------------------------------------------------------------

\* The echo broadcast a lawful party signs in round 1.
LawfulEcho(p) ==
    SignedMessagePart(round_rng, p, OurSessionId, RoundId(1), Round1Echo(ids_to_positions(p)))

\* A second, different echo broadcast validly signed by the same party.
OtherEcho(p) == SignedMessagePart(round_rng, p, OurSessionId, RoundId(1), Round1Echo(7))

Behaviors(rid) ==
    IF rid.is_echo THEN {"Lawful", "InvalidEcho", "Mismatched", "MissingEcho"}
    ELSE IF rid.round_num = 1
         THEN {"Lawful", "SerializedGarbage", "AttributableFailure", "OtherEcho"}
    ELSE IF rid.round_num = 2
         THEN {"Lawful", "SerializedGarbage", "AttributableFailureRound2"}
    ELSE {"Lawful"}

\* The echo pack of party `from`: what it says the other parties sent it.
EchoPack(from, behavior) ==
    LET third == CHOOSE t \in Ids : t /= from /\ t /= Me
        mine == (Me :> LawfulEcho(Me))
    IN  IF behavior = "MissingEcho" THEN mine
        ELSE IF behavior = "InvalidEcho"
        THEN mine @@ (third :> BadlySigned(third, OurSessionId, RoundId(1),
                                           Round1Echo(ids_to_positions(third)), "mismatch"))
        ELSE IF behavior = "Mismatched" THEN mine @@ (third :> OtherEcho(third))
        ELSE mine @@ (third :> LawfulEcho(third))

\* The parts of the message of `from` for round `rid` under a behaviour.
PeerDirectMessage(from, rid, behavior) ==
    IF rid.is_echo THEN NonePart
    ELSE IF behavior = "SerializedGarbage" THEN GarbageMessage
    ELSE IF behavior \in {"AttributableFailure", "AttributableFailureRound2"}
    THEN Round1Message(ids_to_positions(from), ids_to_positions(from))
    ELSE Round1Message(ids_to_positions(from), ids_to_positions(Me))

PeerEchoBroadcast(from, rid, behavior) ==
    IF rid /= RoundId(1) THEN NonePart
    ELSE IF behavior = "OtherEcho" THEN Round1Echo(7)
    ELSE Round1Echo(ids_to_positions(from))

PeerNormalBroadcast(from, rid, behavior) ==
    IF rid.is_echo THEN PackPart(EchoPack(from, behavior))
    ELSE IF rid = RoundId(1) THEN Round1Broadcast(ids_to_positions(from))
    ELSE NonePart

\* A message bundle delivered as coming from `from`.
PeerMessage(from, sid, rid, behavior, shape) ==
    LET m == Message(from, sid, rid,
                     PeerDirectMessage(from, rid, behavior),
                     PeerEchoBroadcast(from, rid, behavior),
                     PeerNormalBroadcast(from, rid, behavior))
    IN  IF shape = "MismatchedMetadata"
        THEN [m EXCEPT !.echo_broadcast.round_id = RoundId(0)]
        ELSE IF shape = "UndeserializableSignature"
        THEN [m EXCEPT !.direct_message.sig = "undeserializable"]
        ELSE IF shape = "SignatureMismatch"
        THEN [m EXCEPT !.direct_message.sig = "mismatch"]
        ELSE m

\* The messages a lawful party sends in the course of a session.
LawfulMessages(from) ==
    {PeerMessage(from, OurSessionId, rid, "Lawful", "Signed") :
        rid \in {RoundId(1), echo(RoundId(1)), RoundId(2)}}

\* Messages a lawful party does not send: a deviating content, a foreign
\* session id, a round the protocol does not have, parts with different
\* metadata, a bad signature.  Malformed messages carry the lawful content.
DeviatingMessages(from) ==
    UNION {{PeerMessage(from, OurSessionId, rid, b, "Signed") :
                b \in Behaviors(rid) \ {"Lawful"}} :
           rid \in {RoundId(1), echo(RoundId(1)), RoundId(2)}}
    \cup {PeerMessage(from, ForeignSessionId, rid, "Lawful", "Signed") :
            rid \in {RoundId(1), RoundId(2)}}
    \cup {PeerMessage(from, OurSessionId, RoundId(3), "Lawful", "Signed"),
          PeerMessage(from, OurSessionId, RoundId(1), "Lawful", "MismatchedMetadata"),
          PeerMessage(from, OurSessionId, RoundId(1), "Lawful", "UndeserializableSignature")}
    \cup {PeerMessage(from, OurSessionId, rid, "Lawful", "SignatureMismatch") :
            rid \in {RoundId(1), echo(RoundId(1)), RoundId(2)}}

PeerMessages(from) == LawfulMessages(from) \cup DeviatingMessages(from)

\* ------------------------------------------------------------------------
\* The session of party Me driven by its caller
\* ------------------------------------------------------------------------

VARIABLES
    session,        \* the Session of the current round
    accum,          \* its RoundAccumulator
    phase,          \* "Running", "Finished", "Terminated" or "LocalError"
    to_process,     \* bag of verified messages the caller holds for process_message
    report,         \* the SessionReport once the session ended
    received,       \* per sender: applications of receive_message this round
    faults,         \* faulty deliveries so far
    finalized,      \* the last finalize_round: its session, its outcome, the
                    \* call of the round's finalize it made
    delivered,      \* the peers that delivered a message to the session
    cache_order,    \* the senders of the messages cached in the current
                    \* round, in the order of their arrival
    states,         \* run of all parties: per party, its session and outcome
    messages,       \* run of all parties: the messages not yet delivered
    id_set,         \* the IdSet of the senders a round expects messages from
    query           \* the last question put to id_set and its answer

vars == <<session, accum, phase, to_process, report, received, faults, finalized,
          delivered, cache_order, states, messages, id_set, query>>

\* The variables of a run of all parties.
run_vars == <<states, messages>>

\* The variables of the session of one party driven by its caller.
session_vars == <<session, accum, phase, to_process, report, received, faults, finalized,
                  delivered, cache_order, id_set, query>>

NotReceived == [p \in other_ids(Me) |-> 0]

\* What the accumulator holds for the transcript when the round ends.
Committed(a) ==
    [echo_broadcasts |-> a.echo_broadcasts,
     normal_broadcasts |-> a.normal_broadcasts,
     direct_messages |-> a.direct_messages,
     provable_errors |-> a.provable_errors,
     unprovable_errors |-> a.unprovable_errors,
     missing_messages |-> a.still_have_not_sent_messages]

\* The record of the last finalize_round:
\*   outcome, round_id, possible_next_rounds, echo_none
\*                  its outcome, and the round id, the possible next rounds
\*                  and the absence of an echo broadcast of its session
\*   called, payloads, artifacts, returned
\*                  the call of the round's finalize it made
\*   calls          the main rounds whose finalize was called so far
\*   main_payloads, main_artifacts
\*                  what the accumulator of the last main round held
\*   committed      what its accumulator held for the transcript
NotFinalized ==
    [outcome |-> "None", round_id |-> NoRound, possible_next_rounds |-> {},
     echo_none |-> TRUE,
     called |-> FALSE, payloads |-> EmptyMap, artifacts |-> EmptyMap, returned |-> NoRound,
     calls |-> <<>>, main_payloads |-> EmptyMap, main_artifacts |-> EmptyMap,
     committed |-> Committed(NewAccumulator({}))]

SessionInit ==
    /\ session = NewSession(Me)
    /\ accum = entered_accumulator(NewSession(Me))
    /\ phase = "Running"
    /\ to_process = EmptyBag
    /\ report = NoReport
    /\ received = NotReceived
    /\ faults = 0
    /\ finalized = NotFinalized
    /\ delivered = {}
    /\ cache_order = <<>>
    /\ id_set = new_non_threshold(expecting_messages_from(NewSession(Me).round))
    /\ query = [of |-> "none", ids |-> {}, answer |-> FALSE]

Init ==
    /\ SessionInit
    /\ states = <<>>
    /\ messages = {}

\* A delivery counts as a fault of the peer when the message is one a
\* lawful party does not send, or when preprocess_message rejects it with
\* an error registered against the sender.
IsFault(from, message, r) ==
    /\ ~(transcript_is_banned(session.transcript, from) \/ is_banned(accum, from))
    /\ message \notin LawfulMessages(from) \/ r.outcome = "Error"

\* A message arrives from a peer and the caller hands it to
\* preprocess_message; a ToProcess outcome is kept for process_message.
PreprocessWithin(from, message, max_faults) ==
    /\ phase = "Running"
    /\ \E r \in {preprocess_message(session, accum, from, message)} :
           /\ IsFault(from, message, r) => faults < max_faults
           /\ faults' = IF IsFault(from, message, r) THEN faults + 1 ELSE faults
           /\ accum' = r.accum
           /\ phase' = IF r.ok THEN phase ELSE "LocalError"
           /\ to_process' = IF r.ok /\ r.outcome = "ToProcess"
                            THEN to_process (+) SetToBag({r.verified}) ELSE to_process
           /\ cache_order' = IF r.ok /\ r.outcome = "Cached"
                             THEN Append(cache_order, from) ELSE cache_order
    /\ delivered' = delivered \cup {from}
    /\ UNCHANGED <<session, report, received, finalized, states, messages, id_set, query>>

\* The same step when the peers may commit MaxFaults faults.
PreprocessMessage(from, message) == PreprocessWithin(from, message, MaxFaults)

\* The caller applies process_message to a verified message and merges the
\* result with add_processed_message.
ProcessMessage(message) ==
    /\ phase = "Running"
    /\ BagIn(message, to_process)
    /\ \E r \in {add_processed_message(accum, session.transcript,
                                         process_message(session, message))} :
           /\ accum' = r.accum
           /\ phase' = IF r.ok THEN phase ELSE "LocalError"
    /\ to_process' = to_process (-) SetToBag({message})
    /\ received' = [received EXCEPT ![message.from] = @ + 1]
    /\ UNCHANGED <<session, report, faults, finalized, delivered, cache_order,
                   states, messages, id_set, query>>

\* The step of the caller that takes the result `r` of finalize_round.
Finalized(r) ==
    /\ phase' = IF ~r.ok THEN "LocalError"
                ELSE IF r.outcome = "Finished" THEN "Finished" ELSE phase
    /\ session' = r.session
    /\ accum' = IF r.outcome = "AnotherRound" THEN entered_accumulator(r.session) ELSE accum
    /\ to_process' = SetToBag({r.cached_messages[i] : i \in DOMAIN r.cached_messages})
    /\ report' = r.report
    /\ received' = IF r.outcome = "AnotherRound" THEN NotReceived ELSE received
    /\ finalized' = [outcome |-> r.outcome, round_id |-> session.round.id,
                     possible_next_rounds |-> session.possible_next_rounds,
                     echo_none |-> is_none(session.echo_broadcast.payload),
                     called |-> r.finalize_called, payloads |-> r.finalize_payloads,
                     artifacts |-> r.finalize_artifacts,
                     returned |-> r.finalize_returned,
                     calls |-> IF r.finalize_called
                               THEN Append(finalized.calls, non_echo(session.round.id))
                               ELSE finalized.calls,
                     main_payloads |-> IF session.round.id.is_echo
                                       THEN finalized.main_payloads ELSE accum.payloads,
                     main_artifacts |-> IF session.round.id.is_echo
                                        THEN finalized.main_artifacts ELSE accum.artifacts,
                     committed |-> Committed(accum)]
    /\ cache_order' = IF r.outcome = "AnotherRound" THEN <<>> ELSE cache_order
    /\ UNCHANGED <<faults, delivered, states, messages, id_set, query>>

\* The caller finalizes the round once can_finalize answers Yes.
FinalizeRound(returned_id) ==
    /\ phase = "Running"
    /\ can_finalize(accum) = "Yes"
    /\ \E r \in {finalize_round(session, accum, returned_id)} : Finalized(r)

\* The same step with the older variant of finalize_round.
OlderFinalizeRound(returned_id) ==
    /\ phase = "Running"
    /\ can_finalize(accum) = "Yes"
    /\ \E r \in {older_finalize_round(session, accum, returned_id)} : Finalized(r)

\* The caller gives up on the round.
Terminate ==
    /\ phase = "Running"
    /\ \E r \in {terminate(session, accum)} :
           /\ phase' = IF r.ok THEN "Terminated" ELSE "LocalError"
           /\ report' = IF r.ok THEN r.report ELSE report
    /\ to_process' = EmptyBag
    /\ UNCHANGED <<session, accum, received, faults, finalized, delivered, cache_order,
                   states, messages, id_set, query>>

\* Round ids the finalize of the current round may return: the round the
\* protocol declares, or one it does not declare.
ReturnedIds == {RoundId(2), RoundId(3)}

Next ==
    \/ \E from \in other_ids(Me) : \E message \in PeerMessages(from) :
            PreprocessMessage(from, message)
    \/ \E message \in BagToSet(to_process) : ProcessMessage(message)
    \/ \E returned_id \in ReturnedIds : FinalizeRound(returned_id)
    \/ Terminate

Spec == Init /\ [][Next]_vars

\* The session driven with the older variant of finalize_round.
OlderNext ==
    \/ \E from \in other_ids(Me) : \E message \in PeerMessages(from) :
            PreprocessMessage(from, message)
    \/ \E message \in BagToSet(to_process) : ProcessMessage(message)
    \/ \E returned_id \in ReturnedIds : OlderFinalizeRound(returned_id)
    \/ Terminate

OlderSpec == Init /\ [][OlderNext]_vars

\* The session with peers that may commit one fault more, each of them a
\* repeated lawful message or an echo-round message with an incomplete pack.
StubbornMessages(from) ==
    LawfulMessages(from)
    \cup {PeerMessage(from, OurSessionId, echo(RoundId(1)), "MissingEcho", "Signed")}

StubbornNext ==
    \/ \E from \in other_ids(Me) : \E message \in StubbornMessages(from) :
            PreprocessWithin(from, message, MaxFaults + 1)
    \/ \E message \in BagToSet(to_process) : ProcessMessage(message)
    \/ \E returned_id \in ReturnedIds : FinalizeRound(returned_id)
    \/ Terminate

StubbornSpec == Init /\ [][StubbornNext]_vars

\* ------------------------------------------------------------------------
\* A run of the example protocol by all parties with one malicious party
\* ------------------------------------------------------------------------

\* run_with_one_malicious_party: the first id in order misbehaves.
misbehaving_id == CHOOSE id \in Ids : \A other \in Ids : id <= other

\* The behaviours of the malicious party.
MaliciousBehaviors == {"SerializedGarbage", "AttributableFailure", "AttributableFailureRound2"}

\* The state of a party in the run: in progress with its session and
\* accumulator, finished with a report, or failed with a LocalError.
InProgress(party_session, party_accum) ==
    [state |-> "InProgress", session |-> party_session, accum |-> party_accum,
     report |-> NoReport]

Finished(party_session, party_accum, party_report) ==
    [state |-> "Finished", session |-> party_session, accum |-> party_accum,
     report |-> party_report]

Failed(party_session, party_accum) ==
    [state |-> "LocalError", session |-> party_session, accum |-> party_accum,
     report |-> NoReport]

RoundMessage(from, to, message) == [from |-> from, to |-> to, message |-> message]

\* The messages a party sends on entering a round: one per destination.
round_messages(party_session) ==
    {RoundMessage(party_session.verifier, destination,
                  make_message(party_session, destination)) :
        destination \in message_destinations(party_session.round)}

\* The cached messages returned by finalize_round are processed in order.
RECURSIVE add_cached(_, _, _)
add_cached(party_session, party_accum, cached_messages) ==
    IF cached_messages = <<>> THEN [ok |-> TRUE, accum |-> party_accum]
    ELSE LET r == add_processed_message(party_accum, party_session.transcript,
                        process_message(party_session, Head(cached_messages)))
         IN  IF ~r.ok THEN r
             ELSE add_cached(party_session, r.accum, Tail(cached_messages))

\* The party finalizes rounds as long as can_finalize answers Yes, sending
\* the messages of every round it enters; it terminates when the answer is
\* Never.  `sent` collects the messages sent.
RECURSIVE propagate(_, _, _)
propagate(party_session, party_accum, sent) ==
    IF can_finalize(party_accum) = "NotYet"
    THEN [state |-> InProgress(party_session, party_accum), messages |-> sent]
    ELSE IF can_finalize(party_accum) = "Never"
    THEN LET t == terminate(party_session, party_accum)
         IN  [state |-> IF t.ok THEN Finished(party_session, party_accum, t.report)
                        ELSE Failed(party_session, party_accum),
              messages |-> sent]
    ELSE LET next_id == round_finalize(party_session.round, party_accum.payloads,
                                         party_accum.artifacts).round.id
             r == finalize_round(party_session, party_accum, next_id)
             a == add_artifacts(r.session, make_accumulator(r.session),
                                message_destinations(r.session.round))
             c == add_cached(r.session, a.accum, r.cached_messages)
         IN  IF ~r.ok
             THEN [state |-> Failed(party_session, party_accum), messages |-> sent]
             ELSE IF r.outcome = "Finished"
             THEN [state |-> Finished(party_session, party_accum, r.report),
                   messages |-> sent]
             ELSE IF ~a.ok \/ ~c.ok
             THEN [state |-> Failed(r.session, c.accum),
                   messages |-> sent \cup round_messages(r.session)]
             ELSE propagate(r.session, c.accum, sent \cup round_messages(r.session))

\* The party takes a message delivered to it: preprocess_message, then
\* process_message and add_processed_message when the message is for the
\* current round, then the round is finalized if it can be.
receive(party, from, message) ==
    LET r == preprocess_message(party.session, party.accum, from, message)
        a == add_processed_message(r.accum, party.session.transcript,
                                   process_message(party.session, r.verified))
    IN  IF ~r.ok
        THEN [state |-> Failed(party.session, r.accum), messages |-> {}]
        ELSE IF r.outcome /= "ToProcess"
        THEN propagate(party.session, r.accum, {})
        ELSE IF ~a.ok
        THEN [state |-> Failed(party.session, a.accum), messages |-> {}]
        ELSE propagate(party.session, a.accum, {})

\* The session of a party at the start of the run.
EntrySession(id, behavior) ==
    new_for_next_round(id,
        IF id = misbehaving_id THEN MaliciousRound1(id, behavior) ELSE Round1(id),
        NewTranscript)

EntryState(id, behavior) ==
    InProgress(EntrySession(id, behavior),
               add_artifacts(EntrySession(id, behavior),
                             make_accumulator(EntrySession(id, behavior)),
                             message_destinations(EntrySession(id, behavior).round)).accum)

RunInit ==
    /\ SessionInit
    /\ \E behavior \in MaliciousBehaviors :
          /\ states = [id \in Ids |-> EntryState(id, behavior)]
          /\ messages = UNION {round_messages(EntrySession(id, behavior)) : id \in Ids}

\* A message in flight is delivered to a party in progress.
Deliver(message) ==
    /\ message \in messages
    /\ states[message.to].state = "InProgress"
    /\ \E r \in {receive(states[message.to], message.from, message.message)} :
          /\ states' = [states EXCEPT ![message.to] = r.state]
          /\ messages' = (messages \ {message}) \cup r.messages
    /\ UNCHANGED session_vars

\* A message for a party that is no longer in progress is dropped.
Drop(message) ==
    /\ message \in messages
    /\ states[message.to].state /= "InProgress"
    /\ messages' = messages \ {message}
    /\ UNCHANGED states
    /\ UNCHANGED session_vars

\* The state of a party still in progress when no message is left.
terminated(party) ==
    IF party.state /= "InProgress" THEN party
    ELSE IF terminate(party.session, party.accum).ok
    THEN Finished(party.session, party.accum, terminate(party.session, party.accum).report)
    ELSE Failed(party.session, party.accum)

\* No message is left: the parties still in progress are terminated.
EndRun ==
    /\ messages = {}
    /\ \E id \in Ids : states[id].state = "InProgress"
    /\ states' = [id \in Ids |-> terminated(states[id])]
    /\ UNCHANGED messages
    /\ UNCHANGED session_vars

RunNext ==
    \/ \E message \in messages : Deliver(message)
    \/ \E message \in messages : Drop(message)
    \/ EndRun

RunSpec == RunInit /\ [][RunNext]_vars

\* ------------------------------------------------------------------------
\* A run of the example protocol by honest parties
\* ------------------------------------------------------------------------

\* Every party enters round 1 of the example and sends its messages.
HonestInit ==
    /\ SessionInit
    /\ states = [id \in Ids |-> EntryState(id, "Lawful")]
    /\ messages = UNION {round_messages(EntrySession(id, "Lawful")) : id \in Ids}

\* Messages are delivered one at a time, in any order.
HonestNext == \E message \in messages : Deliver(message)

HonestSpec == HonestInit /\ [][HonestNext]_vars

\* ------------------------------------------------------------------------
\* The quorum of a round
\* ------------------------------------------------------------------------

\* A party with a key of its own that does not take part in the session.
Outsider == 3

\* A round declares the senders it expects messages from, all of the given
\* parties (all_to_all) or nobody (none), and its accumulator is made for
\* them.
IdSetInit ==
    /\ \E other_parties \in SUBSET Ids : id_set \in {new_non_threshold(other_parties), empty}
    /\ query = [of |-> "none", ids |-> {}, answer |-> FALSE]
    /\ session = NewSession(Me)
    /\ accum = NewAccumulator(id_set.ids)
    /\ phase = "Running"
    /\ to_process = EmptyBag
    /\ report = NoReport
    /\ received = NotReceived
    /\ faults = 0
    /\ finalized = NotFinalized
    /\ delivered = {}
    /\ cache_order = <<>>
    /\ states = <<>>
    /\ messages = {}

\* The set is asked whether the given ids make a quorum.
IsQuorum(ids) ==
    /\ query' = [of |-> "is_quorum", ids |-> ids, answer |-> is_quorum(id_set, ids)]
    /\ UNCHANGED <<session, accum, phase, to_process, report, received, faults, finalized,
                   delivered, cache_order, states, messages, id_set>>

\* The set is asked whether a quorum is possible once the given ids are
\* banned.
IsQuorumPossible(banned_ids) ==
    /\ query' = [of |-> "is_quorum_possible", ids |-> banned_ids,
                  answer |-> is_quorum_possible(id_set, banned_ids)]
    /\ UNCHANGED <<session, accum, phase, to_process, report, received, faults, finalized,
                   delivered, cache_order, states, messages, id_set>>

\* The ids asked about are any parties, members of the set or not.
IdSetNext ==
    \/ \E ids \in SUBSET (Ids \cup {Outsider}) : IsQuorum(ids)
    \/ \E banned_ids \in SUBSET (Ids \cup {Outsider}) : IsQuorumPossible(banned_ids)

IdSetSpec == IdSetInit /\ [][IdSetNext]_vars

\* ------------------------------------------------------------------------
\* Properties
\* ------------------------------------------------------------------------

\* The senders for which the accumulator has recorded a final outcome.
HasOutcome(a, p) ==
    \/ p \in DOMAIN a.payloads
    \/ p \in DOMAIN a.provable_errors
    \/ p \in DOMAIN a.unprovable_errors

\* Verified messages a peer may still present to the session.
Presentable ==
    BagToSet(to_process) \cup
    UNION {{VerifiedMessage(from, m) : m \in LawfulMessages(from)} : from \in other_ids(Me)}

\* C5: can_finalize answers Yes exactly when the quorum predicate holds over
\* the keys of payloads, which for the non-threshold quorum means that every
\* member of expecting_messages_from has a recorded payload.
C5_YesIffQuorum ==
    LET yes == can_finalize(accum) = "Yes"
        quorum == is_quorum(new_non_threshold(accum.expecting_messages_from),
                            DOMAIN accum.payloads)
    IN  /\ yes <=> quorum
        /\ yes <=> \A p \in accum.expecting_messages_from : p \in DOMAIN accum.payloads

\* A round where some but not all payloads were recorded, then all of them.
C5_Witness ==
    /\ session.round.id = RoundId(2)
    /\ can_finalize(accum) = "Yes"
    /\ DOMAIN accum.payloads = other_ids(Me)
    /\ \A p \in other_ids(Me) : received[p] = 1

\* C6: when can_finalize answers Never, nobody is left in the still-unsent
\* set, and no message that can still be merged into the accumulator adds a
\* payload: the quorum stays out of reach.
C6_NeverIsFinal ==
    can_finalize(accum) = "Never" =>
        /\ accum.still_have_not_sent_messages = {}
        /\ \A vm \in Presentable :
              LET r == add_processed_message(accum, session.transcript,
                                             process_message(session, vm))
              IN  /\ r.accum.payloads = accum.payloads
                  /\ can_finalize(r.accum) /= "Yes"

\* Never is reached: every peer responded and one of them has no payload.
C6_Witness ==
    /\ phase = "Running"
    /\ can_finalize(accum) = "Never"
    /\ \E p \in other_ids(Me) : p \in DOMAIN accum.provable_errors
    /\ \E p \in other_ids(Me) : p \in DOMAIN accum.payloads

\* C7: an expected sender is out of the still-unsent set exactly when the
\* accumulator holds a final outcome for it (a payload, a provable error or
\* an unprovable error), and still-unsent holds expected senders only.
C7_UnsentIffNoOutcome ==
    phase = "Running" =>
        /\ accum.still_have_not_sent_messages \subseteq accum.expecting_messages_from
        /\ \A p \in accum.expecting_messages_from :
              p \notin accum.still_have_not_sent_messages <=> HasOutcome(accum, p)

\* The messages with valid signatures and coherent metadata that a peer
\* can deliver.
CorrectlySigned(from) ==
    {m \in PeerMessages(from) : unify_metadata(m) /\ verify_message(m, from) = "Ok"}

Banned(from) == transcript_is_banned(session.transcript, from) \/ is_banned(accum, from)

\* preprocess_message rejected the message: an Error outcome, nothing handed
\* over for processing, nothing cached or marked as being processed, and
\* the sender is banned from then on.
Rejected(from, r) ==
    /\ r.ok
    /\ r.outcome = "Error"
    /\ r.verified = NoMessage
    /\ r.accum.cached = accum.cached
    /\ r.accum.processing = accum.processing
    /\ r.accum.payloads = accum.payloads
    /\ is_banned(r.accum, from) \/ transcript_is_banned(session.transcript, from)

C1_NoMessageFromBanned ==
    phase = "Running" =>
        /\ \A vm \in BagToSet(to_process) :
              ~transcript_is_banned(session.transcript, vm.from)
        /\ \A from \in DOMAIN accum.cached :
              ~transcript_is_banned(session.transcript, from)

\* Every entry of the map is keyed by the guilty party of its evidence.
KeyedByGuilty(provable_errors) ==
    \A k \in DOMAIN provable_errors : guilty_party(provable_errors[k]) = k

\* C3: every entry of provable_errors, in the accumulator, in the transcript
\* and in the report, is keyed by the guilty party of its evidence,
\* evidence of echo-round errors included.
C3_KeyedByGuiltyParty ==
    /\ KeyedByGuilty(accum.provable_errors)
    /\ KeyedByGuilty(session.transcript.provable_errors)
    /\ KeyedByGuilty(report.provable_errors)

\* C4: the round's receive_message is applied at most once to each sender
\* in a round, and the payloads handed to finalize hold one payload for
\* every sender whose message was accepted.
C4_OncePerSender ==
    /\ \A p \in other_ids(Me) : received[p] <= 1
    /\ finalized.called => DOMAIN finalized.payloads = other_ids(Me)

\* C8: a session that finalize_round produces runs a round whose id is in
\* possible_next_rounds of the session it replaces; when the round's
\* finalize returns a round whose id is not in that set, finalize_round
\* fails with a LocalError and the session stays in the finished round.
C8_NextRoundDeclared ==
    /\ finalized.outcome = "AnotherRound" =>
          session.round.id \in finalized.possible_next_rounds
    /\ (finalized.returned /= NoRound
        /\ finalized.returned \notin finalized.possible_next_rounds) =>
          /\ finalized.outcome = "LocalError"
          /\ phase = "LocalError"
          /\ session.round.id = finalized.round_id

\* The round's finalize returned a round that the round did not declare.
C8_Witness ==
    /\ finalized.called
    /\ finalized.returned = RoundId(3)
    /\ RoundId(3) \notin finalized.possible_next_rounds

\* The run is over: no message is in flight and no party is in progress.
RunOver ==
    /\ states /= <<>>
    /\ messages = {}
    /\ \A id \in Ids : states[id].state /= "InProgress"

\* C2: when a run with one malicious party is over, the report of every
\* other party holds an evidence against the malicious party that
\* Evidence::verify accepts given the evidence alone, and the report of the
\* malicious party holds no provable error.
C2_EvidenceAgainstDeviator ==
    RunOver =>
        /\ \A id \in Ids : states[id].state = "Finished"
        /\ \A id \in Ids \ {misbehaving_id} :
              /\ misbehaving_id \in DOMAIN states[id].report.provable_errors
              /\ verify(states[id].report.provable_errors[misbehaving_id],
                        misbehaving_id) = "Ok"
        /\ DOMAIN states[misbehaving_id].report.provable_errors = {}

\* A run is over in which the malicious party sent a wrong position in
\* round 2, and an honest party holds the evidence with the attached
\* round 1 messages.
C2_Witness ==
    /\ RunOver
    /\ \E id \in Ids \ {misbehaving_id} :
          /\ misbehaving_id \in DOMAIN states[id].report.provable_errors
          /\ states[id].report.provable_errors[misbehaving_id].kind = "Protocol"
          /\ RoundId(1) \in
                DOMAIN states[id].report.provable_errors[misbehaving_id].combined_echos

\* A first message of the peer for the current round was taken by the
\* session: it is marked as being processed, it waits for process_message,
\* or receive_message was applied to it.
FirstMessageTaken(from) ==
    \/ message_is_being_processed(accum, from)
    \/ \E vm \in BagToSet(to_process) : vm.from = from
    \/ received[from] >= 1

\* C11: once a first message of a peer for the current round was taken, a
\* second message of the peer for the current round is rejected by
\* preprocess_message and never handed to process_message, and the peer is
\* banned: with an unprovable error registered on this reception when it
\* was not banned already.
C11_SecondMessageRejected ==
    phase = "Running" =>
        \A from \in other_ids(Me) : \A m \in CorrectlySigned(from) :
            (/\ FirstMessageTaken(from)
             /\ m.direct_message.session_id = session.session_id
             /\ m.direct_message.round_id = session.round.id) =>
                LET r == preprocess_message(session, accum, from, m)
                IN  /\ Rejected(from, r)
                    /\ ~Banned(from) => from \in DOMAIN r.accum.unprovable_errors

C13_Witness ==
    /\ states /= <<>>
    /\ \A id \in Ids :
          /\ states[id].state = "Finished"
          /\ states[id].report.outcome = "Result"
          /\ states[id].report.result = 6
          /\ DOMAIN states[id].report.provable_errors = {}

\* C13: in a run of three honest parties, in whatever order the messages
\* are delivered, a party is in progress or has finished with a report whose
\* outcome is Result(6) and whose provable_errors is empty; every message in
\* flight is for a party in progress, so that it can be delivered; and once
\* every message sent is delivered, every party has finished.
C13_HonestRunResult ==
    /\ \A id \in Ids :
          \/ states[id].state = "InProgress"
          \/ /\ states[id].state = "Finished"
             /\ states[id].report.outcome = "Result"
             /\ states[id].report.result = 6
             /\ DOMAIN states[id].report.provable_errors = {}
    /\ \A message \in messages : states[message.to].state = "InProgress"
    /\ messages = {} => \A id \in Ids : states[id].state = "Finished"

\* C14: the messages a party makes in one round carry the same signed echo
\* broadcast and the same signed normal broadcast, payload and signature,
\* for every destination: this holds of the messages in flight, and of
\* what make_message returns for any two destinations of a session in
\* progress, which is the broadcast the session signed on entering the round.
C14_SameBroadcasts ==
    /\ \A m1, m2 \in messages :
          (/\ m1.from = m2.from
           /\ m1.message.direct_message.round_id = m2.message.direct_message.round_id) =>
              /\ m1.message.echo_broadcast = m2.message.echo_broadcast
              /\ m1.message.normal_broadcast = m2.message.normal_broadcast
    /\ \A id \in DOMAIN states :
          \A d1, d2 \in message_destinations(states[id].session.round) :
              LET m1 == make_message(states[id].session, d1)
                  m2 == make_message(states[id].session, d2)
              IN  /\ m1.echo_broadcast = m2.echo_broadcast
                  /\ m1.normal_broadcast = m2.normal_broadcast
                  /\ m1.echo_broadcast = states[id].session.echo_broadcast
                  /\ m1.normal_broadcast = states[id].session.normal_broadcast
                  /\ d1 /= d2 => m1.direct_message /= m2.direct_message

\* Both messages of the echo sub-round of a party are in flight: they carry
\* the pack of echo broadcasts as their normal broadcast.
C14_Witness ==
    \E m1, m2 \in messages :
        /\ m1.from = m2.from
        /\ m1.to /= m2.to
        /\ m1.message.direct_message.round_id = echo(RoundId(1))
        /\ m2.message.direct_message.round_id = echo(RoundId(1))
        /\ m1.message.normal_broadcast.payload.tag = "pack"

\* C15: finalize_round on a round whose session made an echo broadcast
\* returns AnotherRound with the session of the echo sub-round of that
\* round; on a round without an echo broadcast it enters no echo sub-round;
\* and a session enters an echo sub-round only from its main round.
C15_EchoRoundFollows ==
    /\ finalized.outcome /= "None" =>
          /\ ~finalized.echo_none =>
                /\ finalized.outcome = "AnotherRound"
                /\ session.round.id = echo(finalized.round_id)
          /\ finalized.echo_none =>
                ~(finalized.outcome = "AnotherRound" /\ session.round.id.is_echo)
    /\ (finalized.outcome = "AnotherRound" /\ session.round.id.is_echo) =>
          /\ ~finalized.echo_none
          /\ ~finalized.round_id.is_echo
          /\ finalized.round_id = non_echo(session.round.id)
    /\ finalized.outcome = "None" => ~session.round.id.is_echo

\* Round 1, which makes an echo broadcast, was finalized and the session is
\* in its echo sub-round.
C15_Witness ==
    /\ finalized.round_id = RoundId(1)
    /\ ~finalized.echo_none
    /\ finalized.outcome = "AnotherRound"
    /\ session.round.id = echo(RoundId(1))

\* C16: finalize_round on a round that made an echo broadcast does not call
\* the round's finalize; the finalize_round of its echo sub-round that
\* yields a next round or a result calls the finalize of the main round,
\* with the payloads and the artifacts that the accumulator of the main
\* round held; and the finalize of no round is called twice.
C16_MainFinalizeDeferred ==
    /\ (finalized.outcome /= "None" /\ ~finalized.echo_none) => ~finalized.called
    /\ (finalized.round_id.is_echo /\ finalized.outcome \in {"AnotherRound", "Finished"}) =>
          /\ finalized.called
          /\ finalized.calls[Len(finalized.calls)] = non_echo(finalized.round_id)
    /\ (finalized.called /\ finalized.round_id.is_echo) =>
          /\ finalized.payloads = finalized.main_payloads
          /\ finalized.artifacts = finalized.main_artifacts
    /\ \A i, j \in DOMAIN finalized.calls :
          i /= j => finalized.calls[i] /= finalized.calls[j]

\* The echo sub-round of round 1 was finalized, which called the finalize
\* of round 1 with the payloads of both peers and the artifacts of the
\* messages sent to them.
C16_Witness ==
    /\ finalized.round_id = echo(RoundId(1))
    /\ finalized.called
    /\ finalized.outcome = "AnotherRound"
    /\ DOMAIN finalized.payloads = other_ids(Me)
    /\ DOMAIN finalized.artifacts = other_ids(Me)
    /\ accum.payloads = EmptyMap

\* ------------------------------------------------------------------------
\* C17
\* ------------------------------------------------------------------------

\* Every entry of the transcript `old` is in the transcript `new`, unchanged.
transcript_keeps(old, new) ==
    /\ \A r \in DOMAIN old.echo_broadcasts :
          r \in DOMAIN new.echo_broadcasts /\ new.echo_broadcasts[r] = old.echo_broadcasts[r]
    /\ \A r \in DOMAIN old.normal_broadcasts :
          r \in DOMAIN new.normal_broadcasts /\ new.normal_broadcasts[r] = old.normal_broadcasts[r]
    /\ \A r \in DOMAIN old.direct_messages :
          r \in DOMAIN new.direct_messages /\ new.direct_messages[r] = old.direct_messages[r]
    /\ \A r \in DOMAIN old.missing_messages :
          r \in DOMAIN new.missing_messages /\ new.missing_messages[r] = old.missing_messages[r]
    /\ \A v \in DOMAIN old.provable_errors :
          v \in DOMAIN new.provable_errors /\ new.provable_errors[v] = old.provable_errors[v]
    /\ \A v \in DOMAIN old.unprovable_errors :
          v \in DOMAIN new.unprovable_errors /\ new.unprovable_errors[v] = old.unprovable_errors[v]

\* C17: the transcript never replaces an entry.  In every state, an update
\* of the session's transcript for a round id that has an entry, or with a
\* provable (unprovable) error of a party that has a provable (unprovable)
\* error, fails with a LocalError, and an update that succeeds keeps every
\* entry; and every step of the session keeps every entry of its transcript.
C17_TranscriptNeverOverwrites ==
    /\ [](\A round_id \in {RoundId(1), echo(RoundId(1)), RoundId(2), RoundId(3)} :
          \A provable \in {EmptyMap} \cup {(p :> "evidence") : p \in other_ids(Me)} :
          \A unprovable \in {EmptyMap} \cup {(p :> "error") : p \in other_ids(Me)} :
            LET u == transcript_update(session.transcript, round_id,
                        accum.echo_broadcasts, accum.normal_broadcasts, accum.direct_messages,
                        provable, unprovable, accum.still_have_not_sent_messages)
                occupied ==
                    \/ round_id \in DOMAIN session.transcript.echo_broadcasts
                    \/ round_id \in DOMAIN session.transcript.direct_messages
                    \/ round_id \in DOMAIN session.transcript.missing_messages
                    \/ \E p \in DOMAIN provable : p \in DOMAIN session.transcript.provable_errors
                    \/ \E p \in DOMAIN unprovable : p \in DOMAIN session.transcript.unprovable_errors
            IN  /\ occupied => ~u.ok
                /\ u.ok => transcript_keeps(session.transcript, u.transcript))
    /\ [][transcript_keeps(session.transcript, session'.transcript)]_vars

\* The session is in round 2 with the messages of round 1 and of its echo
\* round in the transcript, and a peer with an error registered.
C17_Witness ==
    /\ phase = "Running"
    /\ session.round.id = RoundId(2)
    /\ \E from \in other_ids(Me) : transcript_has(session.transcript.direct_messages, RoundId(1), from)
    /\ echo(RoundId(1)) \in DOMAIN session.transcript.direct_messages
    /\ DOMAIN session.transcript.unprovable_errors /= {}

\* ------------------------------------------------------------------------
\* C18
\* ------------------------------------------------------------------------

\* C18: the session that finalize_round returns for the next round (or for
\* the echo sub-round) holds a transcript with the entries of the finalized
\* round: the messages, the errors and the missing senders its accumulator
\* held; and every message of a peer with an error in the finalized round is
\* rejected by preprocess_message of the next round, from the first call on,
\* with "The sender is banned" and no change of the accumulator.
C18_CommittedBeforeNextRound ==
    finalized.outcome = "AnotherRound" =>
        LET round_id == finalized.round_id
            committed == finalized.committed
            transcript == session.transcript
        IN  /\ session.round.id /= round_id
            /\ round_id \in DOMAIN transcript.echo_broadcasts
            /\ transcript.echo_broadcasts[round_id] = committed.echo_broadcasts
            /\ round_id \in DOMAIN transcript.normal_broadcasts
            /\ transcript.normal_broadcasts[round_id] = committed.normal_broadcasts
            /\ round_id \in DOMAIN transcript.direct_messages
            /\ transcript.direct_messages[round_id] = committed.direct_messages
            /\ round_id \in DOMAIN transcript.missing_messages
            /\ transcript.missing_messages[round_id] = committed.missing_messages
            /\ \A v \in DOMAIN committed.provable_errors :
                  /\ v \in DOMAIN transcript.provable_errors
                  /\ transcript.provable_errors[v] = committed.provable_errors[v]
            /\ \A v \in DOMAIN committed.unprovable_errors :
                  /\ v \in DOMAIN transcript.unprovable_errors
                  /\ transcript.unprovable_errors[v] = committed.unprovable_errors[v]
            /\ \A from \in (DOMAIN committed.provable_errors) \cup (DOMAIN committed.unprovable_errors) :
                \A message \in PeerMessages(from) :
                \A a \in {entered_accumulator(session), accum} :
                  LET r == preprocess_message(session, a, from, message)
                  IN  /\ r.ok
                      /\ r.outcome = "Error"
                      /\ r.error = "The sender is banned"
                      /\ r.accum = a

\* The session entered round 2 from the echo round of round 1, in which a
\* peer got an error and messages were accepted; nothing was delivered in
\* round 2 yet.
C18_Witness ==
    /\ finalized.outcome = "AnotherRound"
    /\ finalized.round_id = echo(RoundId(1))
    /\ session.round.id = RoundId(2)
    /\ (DOMAIN finalized.committed.provable_errors) \cup (DOMAIN finalized.committed.unprovable_errors) /= {}
    /\ DOMAIN finalized.committed.normal_broadcasts /= {}
    /\ accum = entered_accumulator(session)

\* ------------------------------------------------------------------------
\* C19
\* ------------------------------------------------------------------------

\* C19: whenever the round can be finalized, the cached messages that
\* finalize_round returns for the next round are in the order in which
\* their senders' messages were passed to preprocess_message and cached.
C19_CachedInArrivalOrder ==
    (phase = "Running" /\ can_finalize(accum) = "Yes") =>
        \A returned_id \in ReturnedIds :
            LET r == finalize_round(session, accum, returned_id)
                senders == [i \in DOMAIN r.cached_messages |-> r.cached_messages[i].from]
                returned == {senders[i] : i \in DOMAIN senders}
            IN  (r.ok /\ r.outcome = "AnotherRound") =>
                    senders = SelectSeq(cache_order, LAMBDA from : from \in returned)

\* ------------------------------------------------------------------------
\* C20
\* ------------------------------------------------------------------------

\* The accumulator after the processed messages `first` and `second` are
\* added in this order; ok is FALSE when one of the two calls fails.
added_in_order(first, second) ==
    LET one == add_processed_message(accum, session.transcript, process_message(session, first))
        two == add_processed_message(one.accum, session.transcript, process_message(session, second))
    IN  [ok |-> one.ok /\ two.ok, accum |-> two.accum]

\* C20: for two verified messages of distinct senders that wait for
\* process_message, adding their processed results in one order fails
\* exactly when adding them in the other order fails, and otherwise the two
\* orders give the same accumulator: payloads, stored parts, errors and
\* still-unsent set, and so the same answer of can_finalize.
C20_ProcessingOrderIrrelevant ==
    phase = "Running" =>
        \A first, second \in BagToSet(to_process) :
            first.from /= second.from =>
                LET this == added_in_order(first, second)
                    other == added_in_order(second, first)
                IN  /\ this.ok = other.ok
                    /\ this.ok =>
                          /\ this.accum = other.accum
                          /\ can_finalize(this.accum) = can_finalize(other.accum)

\* Two messages of distinct senders wait for process_message; the one gives
\* a payload, the other a provable error, and both are recorded.
C20_Witness ==
    /\ phase = "Running"
    /\ \E first, second \in BagToSet(to_process) :
          /\ first.from /= second.from
          /\ added_in_order(first, second).ok
          /\ first.from \in DOMAIN added_in_order(first, second).accum.payloads
          /\ second.from \in DOMAIN added_in_order(first, second).accum.provable_errors
          /\ added_in_order(first, second).accum.still_have_not_sent_messages = {}

\* ------------------------------------------------------------------------
\* C21
\* ------------------------------------------------------------------------

\* C21: in every state of a running session, a message of a peer whose
\* signature check fails in preprocess_message (for the current round or for
\* a next round) gets an Error outcome without a LocalError; it registers
\* the sender in unprovable_errors and changes nothing else of the
\* accumulator: no evidence, nothing marked as in progress, nothing cached.
C21_SignatureFailureUnprovable ==
    phase = "Running" =>
        \A from \in other_ids(Me) : \A message \in PeerMessages(from) :
            LET r == preprocess_message(session, accum, from, message)
                reached ==
                    /\ ~(transcript_is_banned(session.transcript, from) \/ is_banned(accum, from))
                    /\ unify_metadata(message)
                    /\ message.direct_message.session_id = session.session_id
                    /\ message_for(session, accum, from, message.direct_message.round_id)
                            \in {"ThisRound", "NextRound"}
                    /\ verify_message(message, from) /= "Ok"
            IN  reached =>
                    /\ r.ok
                    /\ r.outcome = "Error"
                    /\ r.error \in {"The signature could not be deserialized.",
                                    "Message verification failed."}
                    /\ r.verified = NoMessage
                    /\ from \in DOMAIN r.accum.unprovable_errors
                    /\ r.accum = [accum EXCEPT !.unprovable_errors = r.accum.unprovable_errors]
                    /\ DOMAIN r.accum.unprovable_errors = (DOMAIN accum.unprovable_errors) \cup {from}

\* A message with a failed signature check was delivered: its sender has
\* the unprovable error and nothing else in the accumulator.
C21_Witness ==
    /\ phase = "Running"
    /\ \E from \in other_ids(Me) :
          /\ from \in DOMAIN accum.unprovable_errors
          /\ accum.unprovable_errors[from] \in {"The signature could not be deserialized.",
                                                "Message verification failed."}
          /\ from \notin DOMAIN accum.provable_errors
          /\ from \notin accum.processing
          /\ from \notin DOMAIN accum.cached

\* ------------------------------------------------------------------------
\* C22
\* ------------------------------------------------------------------------

\* C22: when a verified message waits for process_message and its sender is
\* banned in the accumulator, adding its processed result records no payload
\* and no message part of the sender.
C22_NothingRecordedForBanned ==
    phase = "Running" =>
        \A message \in BagToSet(to_process) :
            is_banned(accum, message.from) =>
                LET r == add_processed_message(accum, session.transcript,
                                               process_message(session, message))
                    from == message.from
                IN  r.ok =>
                        /\ from \in DOMAIN r.accum.payloads => from \in DOMAIN accum.payloads
                        /\ from \in DOMAIN r.accum.echo_broadcasts => from \in DOMAIN accum.echo_broadcasts
                        /\ from \in DOMAIN r.accum.normal_broadcasts => from \in DOMAIN accum.normal_broadcasts
                        /\ from \in DOMAIN r.accum.direct_messages => from \in DOMAIN accum.direct_messages

\* ------------------------------------------------------------------------
\* C23
\* ------------------------------------------------------------------------

\* C23: in every state of a running session, a finalize_round that calls the
\* round's finalize, or hands the payloads of the round to its echo
\* sub-round, is one for which can_finalize answers Yes.
C23_FinalizeOnlyWhenReady ==
    phase = "Running" =>
        \A returned_id \in ReturnedIds :
            LET r == finalize_round(session, accum, returned_id)
                handed_to_echo_round ==
                    r.ok /\ r.outcome = "AnotherRound" /\ r.session.round.id = echo(session.round.id)
            IN  (r.finalize_called \/ handed_to_echo_round) => can_finalize(accum) = "Yes"

\* ------------------------------------------------------------------------
\* C24
\* ------------------------------------------------------------------------

\* C24: in every state of a running session, the validly signed message for
\* the current round of a party that is not in the round's
\* expecting_messages_from is not handed to process_message, and so not to
\* the round's receive_message.
C24_OnlyExpectedSendersReachRound ==
    phase = "Running" =>
        LET from == Outsider
            message == PeerMessage(from, OurSessionId, session.round.id, "Lawful", "Signed")
            r == preprocess_message(session, accum, from, message)
        IN  (from \notin expecting_messages_from(session.round) /\ verify_message(message, from) = "Ok")
                => r.outcome /= "ToProcess"

\* ------------------------------------------------------------------------
\* C25
\* ------------------------------------------------------------------------

\* C25: in every state of a running session, preprocess_message returns no
\* LocalError for any message of a peer, and add_processed_message returns
\* no LocalError for any verified message that waits for process_message
\* and whose processing by the round did not end in a Local error.
C25_NoLocalErrorFromRemote ==
    phase = "Running" =>
        /\ \A from \in other_ids(Me) : \A message \in PeerMessages(from) :
                preprocess_message(session, accum, from, message).ok
        /\ \A message \in BagToSet(to_process) :
                process_message(session, message).processed.result /= "Local" =>
                    add_processed_message(accum, session.transcript,
                                          process_message(session, message)).ok

\* ------------------------------------------------------------------------
\* C26
\* ------------------------------------------------------------------------

C28_PartsOnlyWithPayload ==
    LET with_parts == (DOMAIN accum.echo_broadcasts) \cup (DOMAIN accum.normal_broadcasts)
                        \cup (DOMAIN accum.direct_messages)
        failed == (DOMAIN accum.provable_errors)
                    \cup {v \in DOMAIN accum.unprovable_errors :
                            accum.unprovable_errors[v] = "Unprovable"}
    IN  /\ with_parts \subseteq DOMAIN accum.payloads
        /\ with_parts \cap failed = {}

\* One peer's message was processed to a payload and its parts are stored,
\* the other peer's message was processed to a provable error.
C28_Witness ==
    \E good, bad \in other_ids(Me) :
        /\ good \in DOMAIN accum.payloads
        /\ good \in DOMAIN accum.direct_messages
        /\ bad \in DOMAIN accum.provable_errors
        /\ received[bad] = 1
        /\ bad \notin DOMAIN accum.payloads

\* ------------------------------------------------------------------------
\* C29
\* ------------------------------------------------------------------------

\* C29: in every state of a running session, adding the processed result of
\* a verified message that waits for process_message (a payload, a provable
\* error or an unprovable error) leaves its sender neither in the processing
\* set nor in the still-unsent set of the accumulator.
C29_ProcessedLeavesProcessing ==
    phase = "Running" =>
        \A message \in BagToSet(to_process) :
            LET r == add_processed_message(accum, session.transcript,
                                           process_message(session, message))
            IN  r.ok =>
                    /\ message.from \notin r.accum.still_have_not_sent_messages
                    /\ message.from \notin r.accum.processing

\* ------------------------------------------------------------------------
\* C30
\* ------------------------------------------------------------------------

\* C30 (receive): in every state of a running session and for every message
\* of a peer, a part for a NoMessage slot of the round is accepted exactly
\* when it is absent and a part for a typed slot only when it holds a
\* message of the type; the first part, in the order direct message, echo
\* broadcast, normal broadcast, that is not accepted gives the result of
\* receive_message, and with all parts accepted the result is none of the
\* three errors.
C30_SlotChecks ==
    phase = "Running" =>
        \A from \in other_ids(Me) : \A message \in PeerMessages(from) :
            LET accepted(part, slot) ==
                    LET ty == slot_type(session.round.id, slot)
                    IN  IF ty = -1 THEN part.tag = "none"
                        ELSE IF ty = -2 THEN part.tag = "pack"
                        ELSE part.tag = "some" /\ Len(part.bytes) = ty
                d == accepted(message.direct_message.payload, "direct_message")
                e == accepted(message.echo_broadcast.payload, "echo_broadcast")
                n == accepted(message.normal_broadcast.payload, "normal_broadcast")
                res == process_message(session, VerifiedMessage(from, message)).processed.result
            IN  /\ ~d => res = "InvalidDirectMessage"
                /\ (d /\ ~e) => res = "InvalidEchoBroadcast"
                /\ (d /\ e /\ ~n) => res = "InvalidNormalBroadcast"
                /\ (d /\ e /\ n) => res \notin {"InvalidDirectMessage", "InvalidEchoBroadcast",
                                                 "InvalidNormalBroadcast"}

\* C30: the slot checks of receive hold, and in every state of a running
\* session, for a verified message that waits for process_message and whose
\* processing ends in InvalidDirectMessage, InvalidEchoBroadcast or
\* InvalidNormalBroadcast, add_processed_message returns no LocalError and
\* registers for the sender an evidence of that kind, and no unprovable
\* error.
C30_InvalidPartIsProvable ==
    /\ C30_SlotChecks
    /\ phase = "Running" =>
          \A message \in BagToSet(to_process) :
              LET processed == process_message(session, message)
                  r == add_processed_message(accum, session.transcript, processed)
                  from == message.from
              IN  processed.processed.result \in {"InvalidDirectMessage", "InvalidEchoBroadcast",
                                                  "InvalidNormalBroadcast"} =>
                      /\ r.ok
                      /\ from \in DOMAIN r.accum.provable_errors
                      /\ r.accum.provable_errors[from].kind = processed.processed.result
                      /\ r.accum.unprovable_errors = accum.unprovable_errors

\* ------------------------------------------------------------------------
\* Evidence of the echo round
\* ------------------------------------------------------------------------

\* C31: in the echo round, the evidence of an invalid echo pack (as
\* new_echo_round_error makes it for the pack of a peer and a named sender)
\* verifies exactly when the pack is validly signed by the guilty party and
\* the echo broadcast it attributes to the named sender is not signed by
\* that sender or carries a session id or a main round other than those of
\* the echoed round; a pack whose entry is correctly signed for the same
\* session and main round is no evidence.
C31_HonestPackIsNoEvidence ==
    (phase = "Running" /\ session.round.id.is_echo) =>
    \A guilty \in other_ids(Me) :
      \A behavior \in Behaviors(session.round.id) :
        \A sig \in {"valid", "mismatch"} :
          \A sender \in Ids :
            LET lawful == PeerMessage(guilty, OurSessionId, session.round.id, behavior, "Signed")
                pack_message == [lawful.normal_broadcast EXCEPT !.sig = sig]
                pack == pack_message.payload.pack
                made == new_echo_round_error(guilty, pack_message, "InvalidEcho", sender,
                                             session.transcript)
                echoed_round == [session_id |-> pack_message.session_id,
                                 round_id |-> non_echo(pack_message.round_id)]
                faulty_entry ==
                    /\ sender \in DOMAIN pack
                    /\ \/ verify_part(pack[sender], sender) /= "Ok"
                       \/ metadata(pack[sender]) /= echoed_round
            IN  /\ made.ok
                /\ (verify(made.evidence, guilty) = "Ok")
                      <=> (verify_part(pack_message, guilty) = "Ok" /\ faulty_entry)

\* C32: the evidence of mismatched broadcasts verifies exactly when both
\* attached echo broadcasts carry a valid signature of the guilty party,
\* their session ids and round ids are equal and their payloads differ;
\* the same broadcast twice, or broadcasts of different rounds or sessions,
\* are no evidence.  The broadcast we received is any one the transcript
\* holds or a peer can sign; the other is any one a pack can attribute.
C32_MismatchedBroadcasts ==
    \A guilty \in other_ids(Me) :
        LET signed == {LawfulEcho(guilty), OtherEcho(guilty),
                       SignedMessagePart(round_rng, guilty, ForeignSessionId, RoundId(1),
                                         Round1Echo(7)),
                       SignedMessagePart(round_rng, guilty, OurSessionId, RoundId(2),
                                         Round1Echo(7)),
                       BadlySigned(guilty, OurSessionId, RoundId(1), Round1Echo(7), "mismatch"),
                       BadlySigned(guilty, OurSessionId, RoundId(1), Round1Echo(7),
                                   "undeserializable"),
                       OtherEcho(Me)}
            recorded == {session.transcript.echo_broadcasts[r][guilty] :
                            r \in {x \in DOMAIN session.transcript.echo_broadcasts :
                                     guilty \in DOMAIN session.transcript.echo_broadcasts[x]}}
        IN  \A we_received \in signed \cup recorded :
              \A echoed_to_us \in signed :
                LET evidence == [BlankEvidence EXCEPT
                                    !.guilty_party = guilty,
                                    !.description = "InvalidBroadcast",
                                    !.kind = "MismatchedBroadcasts",
                                    !.we_received = we_received,
                                    !.echoed_to_us = echoed_to_us]
                    signed_by_guilty(part) == part.sig = "valid" /\ part.signer = guilty
                IN  (verify(evidence, guilty) = "Ok")
                        <=> /\ signed_by_guilty(we_received)
                            /\ signed_by_guilty(echoed_to_us)
                            /\ we_received.session_id = echoed_to_us.session_id
                            /\ we_received.round_id = echoed_to_us.round_id
                            /\ we_received.payload /= echoed_to_us.payload

\* A party registered the evidence of two different round 1 broadcasts of a
\* peer, one from the transcript and one from a pack, and it verifies; the
\* lawful broadcast of the peer with itself does not.
C32_Witness ==
    \E from \in DOMAIN accum.provable_errors :
        LET evidence == accum.provable_errors[from]
            guilty == evidence.guilty_party
        IN  /\ evidence.kind = "MismatchedBroadcasts"
            /\ guilty \in other_ids(Me)
            /\ evidence.we_received = session.transcript.echo_broadcasts[RoundId(1)][guilty]
            /\ evidence.we_received.payload /= evidence.echoed_to_us.payload
            /\ verify(evidence, guilty) = "Ok"
            /\ verify([evidence EXCEPT !.echoed_to_us = evidence.we_received], guilty)
                    = "InvalidEvidence"

\* ------------------------------------------------------------------------
\* Evidence of a protocol error
\* ------------------------------------------------------------------------

\* C33: for every evidence of a protocol error the session holds, the
\* verification returns InvalidEvidence as soon as one attached message (the
\* triggering direct message, the echo broadcast of the same round, a direct
\* message or an echo broadcast of a previous round, a combined echo pack or
\* an echo broadcast inside it) is badly signed, carries another session id
\* than the triggering message, or a round id other than the round it is
\* filed under; with every check passed the result is the one of
\* verify_messages_constitute_error.
C33_AttachedMessagesChecked ==
    LET held == [from \in DOMAIN accum.provable_errors |-> accum.provable_errors[from]]
        Unsigned(sp) == {[sp EXCEPT !.sig = "mismatch"],
                         [sp EXCEPT !.sig = "undeserializable"],
                         [sp EXCEPT !.signer = Outsider]}
        Tampered(sp) == Unsigned(sp) \cup {[sp EXCEPT !.session_id = ForeignSessionId],
                                           [sp EXCEPT !.round_id = RoundId(3)]}
        Invalid(evidence, from) == verify(evidence, from) = "InvalidEvidence"
    IN  \A from \in DOMAIN held :
          LET evidence == held[from]
              guilty == evidence.guilty_party
              packs == evidence.combined_echos
              earlier == {r \in DOMAIN session.transcript.echo_broadcasts :
                            guilty \in DOMAIN session.transcript.echo_broadcasts[r]}
          IN  evidence.kind = "Protocol" =>
                /\ \A t \in Unsigned(evidence.direct_message) :
                      Invalid([evidence EXCEPT !.direct_message = t], guilty)
                /\ \A t \in Tampered(evidence.echo_broadcast) :
                      Invalid([evidence EXCEPT !.echo_broadcast = t], guilty)
                /\ \A r \in DOMAIN evidence.direct_messages :
                      \A t \in Tampered(evidence.direct_messages[r]) :
                          Invalid([evidence EXCEPT !.direct_messages[r] = t], guilty)
                /\ \A r \in earlier :
                      \A t \in Tampered(session.transcript.echo_broadcasts[r][guilty]) :
                          Invalid([evidence EXCEPT !.echo_broadcasts = (r :> t)], guilty)
                /\ \A r \in DOMAIN packs :
                      /\ \A t \in Tampered(packs[r]) :
                            Invalid([evidence EXCEPT !.combined_echos[r] = t], guilty)
                      /\ \A s \in DOMAIN packs[r].payload.pack :
                            \A t \in Tampered(packs[r].payload.pack[s]) :
                                Invalid([evidence EXCEPT
                                            !.combined_echos[r].payload.pack[s] = t], guilty)
                /\ verify(evidence, guilty) =
                      verify_messages_constitute_error(
                          evidence.direct_message.round_id, evidence.direct_message.payload,
                          [r \in DOMAIN packs |->
                              [s \in DOMAIN packs[r].payload.pack |->
                                  packs[r].payload.pack[s].payload]])

\* The session holds the evidence of a round 2 protocol error with the
\* direct message and the combined echo pack of round 1 attached; the
\* evidence verifies, and no longer does once an echo broadcast inside the
\* pack is not signed by its sender.
C33_Witness ==
    \E from \in DOMAIN accum.provable_errors :
        LET evidence == accum.provable_errors[from]
            packs == evidence.combined_echos
        IN  /\ evidence.kind = "Protocol"
            /\ evidence.direct_message.round_id = RoundId(2)
            /\ DOMAIN evidence.direct_messages = {RoundId(1)}
            /\ DOMAIN packs = {RoundId(1)}
            /\ verify(evidence, from) = "Ok"
            /\ \E s \in DOMAIN packs[RoundId(1)].payload.pack :
                  verify([evidence EXCEPT
                            !.combined_echos[RoundId(1)].payload.pack[s].sig = "mismatch"],
                         from) = "InvalidEvidence"

C36_CachedMessages ==
    /\ \A s \in DOMAIN accum.cached :
          \A rid \in DOMAIN accum.cached[s] :
              LET m == accum.cached[s][rid]
              IN  /\ m.from = s
                  /\ m.message.direct_message.round_id = rid
                  /\ rid \in session.possible_next_rounds
                  /\ rid /= session.round.id
                  /\ unify_metadata(m.message)
                  /\ verify_message(m.message, s) = "Ok"
    /\ \A i, j \in DOMAIN cache_order :
          (cache_order[i] = cache_order[j] /\ i /= j) =>
              Cardinality(DOMAIN accum.cached[cache_order[i]]) > 1
    /\ phase = "Running" =>
          \A from \in other_ids(Me) :
              \A message \in PeerMessages(from) :
                  LET rid == message.direct_message.round_id
                      r == preprocess_message(session, accum, from, message)
                  IN  (/\ message_is_cached(accum, from, rid)
                       /\ unify_metadata(message)
                       /\ message.direct_message.session_id = session.session_id
                       /\ ~transcript_is_banned(session.transcript, from)
                       /\ ~is_banned(accum, from)) =>
                          /\ r.ok
                          /\ r.outcome = "Error"
                          /\ r.error = "Message is already cached"
                          /\ r.accum.cached = accum.cached
                          /\ is_banned(r.accum, from)
                          /\ r.accum.unprovable_errors =
                                Insert(accum.unprovable_errors, from, r.error)

\* A peer has a message cached for round 2 and was banned for sending a
\* second one; the cached message is the first.
C36_Witness ==
    \E s \in DOMAIN accum.cached :
        /\ RoundId(2) \in DOMAIN accum.cached[s]
        /\ s \in DOMAIN accum.unprovable_errors
        /\ accum.unprovable_errors[s] = "Message is already cached"
        /\ cache_order = <<s>>

\* ------------------------------------------------------------------------
\* The quorum
\* ------------------------------------------------------------------------

\* C37: the accumulator made for a round that expects messages from nobody
\* answers Yes to can_finalize at once, the empty set of senders (and any
\* other) is a quorum of its IdSet, and the answer is still Yes after any
\* message of a peer went through preprocess_message or was merged with
\* add_processed_message without a LocalError.
C37_NobodyExpected ==
    id_set.ids = {} =>
        /\ accum = NewAccumulator({})
        /\ can_finalize(accum) = "Yes"
        /\ is_quorum(id_set, DOMAIN accum.payloads)
        /\ query.of = "is_quorum" => query.answer
        /\ \A from \in other_ids(Me) :
              \A message \in PeerMessages(from) :
                  LET r == preprocess_message(session, accum, from, message)
                      merged == add_processed_message(
                                    r.accum, session.transcript,
                                    process_message(session, VerifiedMessage(from, message)))
                  IN  /\ r.ok => can_finalize(r.accum) = "Yes"
                      /\ (r.ok /\ merged.ok) => can_finalize(merged.accum) = "Yes"

\* The round expects nobody, its fresh accumulator can be finalized, and
\* the set of no senders was found to be a quorum.
C37_Witness ==
    /\ id_set = empty
    /\ accum.expecting_messages_from = {}
    /\ accum.payloads = EmptyMap
    /\ can_finalize(accum) = "Yes"
    /\ query = [of |-> "is_quorum", ids |-> {}, answer |-> TRUE]

\* C38: within a round, a step that changes the accumulator without a
\* LocalError leaves a Yes of can_finalize a Yes and a Never a Never; only
\* NotYet can turn into another answer.
C38_CanFinalizeStable ==
    [][(session' = session /\ phase' = "Running") =>
            /\ can_finalize(accum) = "Yes" => can_finalize(accum') = "Yes"
            /\ can_finalize(accum) = "Never" => can_finalize(accum') = "Never"]_vars

\* The round can never be finalized: everybody has responded, a payload is
\* missing, and the accumulator holds a payload, an error and a cached
\* message.
C38_Witness ==
    /\ phase = "Running"
    /\ can_finalize(accum) = "Never"
    /\ accum.still_have_not_sent_messages = {}
    /\ DOMAIN accum.payloads /= {}
    /\ DOMAIN accum.cached /= {}
    /\ \E from \in other_ids(Me) : is_banned(accum, from)

\* C39: for the IdSet made by new_non_threshold(S), is_quorum(T) answers
\* true exactly when S is a subset of T, whatever ids T holds, members of S
\* or not.
C39_QuorumIffSuperset ==
    (query.of = "is_quorum" /\ id_set = new_non_threshold(id_set.ids)) =>
        (query.answer <=> id_set.ids \subseteq query.ids)

\* C40: is_quorum_possible(banned) answers true exactly when the ids of the
\* set that are not banned satisfy is_quorum, and the number of banned
\* members it subtracts never exceeds the number of members, whatever ids
\* the banned set holds, members or not.
C40_QuorumPossible ==
    query.of = "is_quorum_possible" =>
        /\ query.answer <=> is_quorum(id_set, id_set.ids \ query.ids)
        /\ Cardinality(id_set.ids \cap query.ids) <= Cardinality(id_set.ids)
        /\ Cardinality(id_set.ids) - Cardinality(id_set.ids \cap query.ids)
              = Cardinality(id_set.ids \ query.ids)

\* A set of two members was asked about a banned set that holds one member
\* and a party outside the set: a quorum is no longer possible.
C40_Witness ==
    /\ query.of = "is_quorum_possible"
    /\ Cardinality(id_set.ids) = 2
    /\ Outsider \in query.ids
    /\ Cardinality(query.ids \cap id_set.ids) = 1
    /\ ~query.answer

====
